---- MODULE Spec2Model ----
(***************************************************************************)
(* Costpulse: the cost allocation engine (services/cost_allocation.py),    *)
(* the API requests that run it inside a get_db session (api/deps.py,      *)
(* api/routes/allocations.py) and the forecast persistence path            *)
(* (services/forecast_service.py).                                         *)
(*                                                                         *)
(* Conventions.  A Python str is a sequence of one-character strings;      *)
(* None and "" are both the empty sequence wherever the code only tests    *)
(* truthiness (user_email, cluster_name).  A float is an integer amount.   *)
(* A call that can raise returns one of "true" / "false" / "raise", or     *)
(* the marker Raised in place of a team id.                                *)
(***************************************************************************)
EXTENDS Integers, Sequences, FiniteSets, TLC

\* ------------------------------------------------------------------ bounds

\* Largest number of rows in cost_records.
MaxRecords == 2
\* Largest number of rows in allocation_rules.
MaxRules == 2
\* Timestamps are 0 .. MaxTime-1; a window end is at most MaxTime.
MaxTime == 2

\* ----------------------------------------------------------------- strings

\* The ids of the rows of table teams.
TeamIds == {"t1", "t2"}

NoTeam == "None"
Raised == "!raise"

\* str.lower() on one character.
LowerChar(c) ==
    CASE c = "A" -> "a"
      [] c = "B" -> "b"
      [] OTHER -> c

\* str.lower()
Lower(s) == [i \in 1..Len(s) |-> LowerChar(s[i])]

\* A compiled pattern of the literal fragment of the regex language:
\* lit is searched as a substring, from position 0 only when anchored ("^");
\* valid = FALSE is a pattern re.compile rejects (re.error).
Pattern(valid, anchored, lit) == [valid |-> valid, anchored |-> anchored, lit |-> lit]

\* re.search(p, s) for a pattern that compiles.
SearchFinds(p, s) ==
    \E i \in 0..(Len(s) - Len(p.lit)) :
        /\ p.anchored => i = 0
        /\ SubSeq(s, i + 1, i + Len(p.lit)) = p.lit

\* re.search(p, s): truthiness of the match object, or re.error.
ReSearch(p, s) ==
    IF ~p.valid THEN "raise"
    ELSE IF SearchFinds(p, s) THEN "true" ELSE "false"

\* any(re.search(p, s) for p in patterns): the generator is consumed left to
\* right and stops at the first match; an invalid pattern reached before a
\* match raises.
RECURSIVE AnySearch(_, _, _)
AnySearch(patterns, s, i) ==
    IF i > Len(patterns) THEN "false"
    ELSE LET m == ReSearch(patterns[i], s)
         IN  IF m = "false" THEN AnySearch(patterns, s, i + 1) ELSE m

\* dict.get(key, default)
DictGet(d, key, default) == IF key \in DOMAIN d THEN d[key] ELSE default

\* -------------------------------------------------------- rule predicates

\* _rule_matches, the branch tag_match
TagMatch(record, conditions) ==
    LET tag_key == DictGet(conditions, "tag_key", "")
        tag_value == DictGet(conditions, "tag_value", <<>>)
    IN  IF tag_key \in DOMAIN record.tags /\ record.tags[tag_key] = tag_value
        THEN "true" ELSE "false"

\* The branch user_match comparing the lowercased user_email with the
\* rule's emails as stored.
UserMatchStoredCase(record, conditions) ==
    LET emails == DictGet(conditions, "emails", {})
    IN  IF record.user_email # <<>> /\ Lower(record.user_email) \in emails
        THEN "true" ELSE "false"

\* _rule_matches, the branch user_match
UserMatch(record, conditions) ==
    LET emails == {Lower(e) : e \in DictGet(conditions, "emails", {})}
    IN  IF record.user_email # <<>> /\ Lower(record.user_email) \in emails
        THEN "true" ELSE "false"

\* _rule_matches, the branch workspace_match
WorkspaceMatch(record, conditions) ==
    IF record.workspace_id \in DictGet(conditions, "workspace_ids", {})
    THEN "true" ELSE "false"

\* _rule_matches, the branch cluster_match
ClusterMatch(record, conditions) ==
    LET patterns == DictGet(conditions, "cluster_name_patterns", <<>>)
    IN  IF record.cluster_name # <<>>
        THEN AnySearch(patterns, record.cluster_name, 1)
        ELSE "false"

\* _rule_matches, the branch sku_match
SkuMatch(record, conditions) ==
    IF record.sku_name \in DictGet(conditions, "sku_names", {})
    THEN "true" ELSE "false"

\* _rule_matches with a final `return True`: a rule of a kind the chain does
\* not know matches every record.
RuleMatchesUnknownTrue(record, rule) ==
    LET conditions == rule.conditions
        rule_type == rule.rule_type
    IN  CASE rule_type = "tag_match" -> TagMatch(record, conditions)
          [] rule_type = "user_match" -> UserMatch(record, conditions)
          [] rule_type = "workspace_match" -> WorkspaceMatch(record, conditions)
          [] rule_type = "cluster_match" -> ClusterMatch(record, conditions)
          [] rule_type = "sku_match" -> SkuMatch(record, conditions)
          [] OTHER -> "true"

\* CostAllocationService._rule_matches
RuleMatches(record, rule) ==
    LET conditions == rule.conditions
        rule_type == rule.rule_type
    IN  CASE rule_type = "tag_match" -> TagMatch(record, conditions)
          [] rule_type = "user_match" -> UserMatch(record, conditions)
          [] rule_type = "workspace_match" -> WorkspaceMatch(record, conditions)
          [] rule_type = "cluster_match" -> ClusterMatch(record, conditions)
          [] rule_type = "sku_match" -> SkuMatch(record, conditions)
          [] OTHER -> "false"

\* CostAllocationService._tags_match: team_patterns is the dict's items in
\* iteration order, each <<key, pattern>>.
RECURSIVE TagsMatch(_, _, _)
TagsMatch(record_tags, team_patterns, i) ==
    IF i > Len(team_patterns) THEN "false"
    ELSE LET key == team_patterns[i][1]
             pattern == team_patterns[i][2]
             value == DictGet(record_tags, key, <<>>)
             m == ReSearch(pattern, value)
         IN  IF m = "false" THEN TagsMatch(record_tags, team_patterns, i + 1) ELSE m

\* The rule loop of _match_record_to_team: rules is the query result, in
\* ORDER BY priority order.
RECURSIVE FirstMatchingRule(_, _, _)
FirstMatchingRule(record, rules, i) ==
    IF i > Len(rules) THEN NoTeam
    ELSE LET m == RuleMatches(record, rules[i])
         IN  IF m = "raise" THEN Raised
             ELSE IF m = "true" THEN rules[i].team_id
             ELSE FirstMatchingRule(record, rules, i + 1)

\* The team loop of _match_record_to_team: team_order is the iteration order
\* of the teams dict.
RECURSIVE FirstTagTeam(_, _, _, _)
FirstTagTeam(record, team_order, teams, i) ==
    IF i > Len(team_order) THEN NoTeam
    ELSE LET team == teams[team_order[i]]
             m == IF team.tag_patterns # <<>>
                  THEN TagsMatch(record.tags, team.tag_patterns, 1)
                  ELSE "false"
         IN  IF m = "raise" THEN Raised
             ELSE IF m = "true" THEN team_order[i]
             ELSE FirstTagTeam(record, team_order, teams, i + 1)

\* The user-email step of _match_record_to_team.
EmailTeam(record, email_to_team) ==
    IF record.user_email # <<>>
    THEN DictGet(email_to_team, Lower(record.user_email), NoTeam)
    ELSE NoTeam

\* The tag step of _match_record_to_team.
TagTeam(record, team_order, teams) ==
    IF DOMAIN record.tags # {}
    THEN FirstTagTeam(record, team_order, teams, 1)
    ELSE NoTeam

\* _match_record_to_team with steps 1 and 2 exchanged: the member map is
\* consulted before the rules.
MatchRecordToTeamEmailFirst(record, rules, email_to_team, team_order, teams) ==
    LET by_email == EmailTeam(record, email_to_team)
    IN  IF by_email # NoTeam THEN by_email
        ELSE LET by_rule == FirstMatchingRule(record, rules, 1)
             IN  IF by_rule # NoTeam THEN by_rule
                 ELSE TagTeam(record, team_order, teams)

\* CostAllocationService._match_record_to_team: a team id, NoTeam, or Raised.
MatchRecordToTeam(record, rules, email_to_team, team_order, teams) ==
    LET by_rule == FirstMatchingRule(record, rules, 1)
    IN  IF by_rule # NoTeam THEN by_rule
        ELSE LET by_email == EmailTeam(record, email_to_team)
             IN  IF by_email # NoTeam THEN by_email
                 ELSE TagTeam(record, team_order, teams)

\* ------------------------------------------------------- the allocation run

\* The window with `<=` for its end: closed on both sides.
InWindowClosed(record, period_start, period_end) ==
    /\ record.usage_date >= period_start
    /\ record.usage_date <= period_end

\* CostRecord.usage_date >= period_start, CostRecord.usage_date < period_end
InWindow(record, period_start, period_end) ==
    /\ record.usage_date >= period_start
    /\ record.usage_date < period_end

\* d[k] = d.get(k, 0.0) + v
DictAdd(d, k, v) ==
    [x \in DOMAIN d \cup {k} |-> IF x = k THEN DictGet(d, k, 0) + v ELSE d[x]]

\* The entry a team gets when its first record arrives.
EmptyAlloc ==
    [total_cost |-> 0, dbu_cost |-> 0, compute_cost |-> 0, records |-> 0,
     by_sku |-> <<>>, by_workspace |-> <<>>]

\* The entry with `=` for `+=` on total_cost: the last record's cost
\* overwrites the sum.
AccumulateOverwrite(alloc, record) ==
    [alloc EXCEPT !.total_cost = record.cost_usd,
                  !.dbu_cost = @ + record.dbu_count * record.dbu_rate,
                  !.records = @ + 1,
                  !.by_sku = DictAdd(@, record.sku_name, record.cost_usd),
                  !.by_workspace = DictAdd(@, record.workspace_id, record.cost_usd)]

\* The entry with dbu_cost taken from the record's stored cost.
AccumulateStoredCost(alloc, record) ==
    [alloc EXCEPT !.total_cost = @ + record.cost_usd,
                  !.dbu_cost = @ + record.cost_usd,
                  !.records = @ + 1,
                  !.by_sku = DictAdd(@, record.sku_name, record.cost_usd),
                  !.by_workspace = DictAdd(@, record.workspace_id, record.cost_usd)]

\* One record added to its team's entry.
Accumulate(alloc, record) ==
    [alloc EXCEPT !.total_cost = @ + record.cost_usd,
                  !.dbu_cost = @ + record.dbu_count * record.dbu_rate,
                  !.records = @ + 1,
                  !.by_sku = DictAdd(@, record.sku_name, record.cost_usd),
                  !.by_workspace = DictAdd(@, record.workspace_id, record.cost_usd)]

\* The loop `for record in cost_records` of allocate_costs, from index i on:
\* acc is [allocations, unallocated, raised]; ctx carries the query results.
RECURSIVE AllocateLoop(_, _, _, _)
AllocateLoop(fetched, i, ctx, acc) ==
    IF i > Len(fetched) THEN acc
    ELSE LET record == fetched[i]
             team_id == MatchRecordToTeam(record, ctx.rules, ctx.email_to_team,
                                          ctx.team_order, ctx.teams)
         IN  IF team_id = Raised THEN [acc EXCEPT !.raised = TRUE]
             ELSE IF team_id # NoTeam
             THEN LET alloc == DictGet(acc.allocations, team_id, EmptyAlloc)
                      allocations == [t \in DOMAIN acc.allocations \cup {team_id} |->
                                        IF t = team_id THEN Accumulate(alloc, record)
                                        ELSE acc.allocations[t]]
                  IN  AllocateLoop(fetched, i + 1, ctx,
                                   [acc EXCEPT !.allocations = allocations])
             ELSE AllocateLoop(fetched, i + 1, ctx,
                               [acc EXCEPT !.unallocated = Append(@, record)])

RECURSIVE SumCost(_, _)
SumCost(recs, i) ==
    IF i > Len(recs) THEN 0 ELSE recs[i].cost_usd + SumCost(recs, i + 1)

RECURSIVE SumDbu(_, _)
SumDbu(recs, i) ==
    IF i > Len(recs) THEN 0
    ELSE recs[i].dbu_count * recs[i].dbu_rate + SumDbu(recs, i + 1)

\* The rows with a guard `if data["total_cost"]`: a team whose records cost
\* nothing gets no row.
AllocationRowsNonZero(allocations, period_start, period_end, run) ==
    {[run |-> run,
      team_id |-> t,
      period_start |-> period_start,
      period_end |-> period_end,
      total_cost |-> allocations[t].total_cost,
      dbu_cost |-> allocations[t].dbu_cost,
      compute_cost |-> allocations[t].compute_cost,
      breakdown |-> [by_sku |-> allocations[t].by_sku,
                     by_workspace |-> allocations[t].by_workspace,
                     record_count |-> allocations[t].records],
      allocation_method |-> "rule_based"] :
        t \in {k \in DOMAIN allocations : allocations[k].total_cost # 0}}

\* The CostAllocation objects the run adds to its session, one per key of
\* allocations; run stands for the uuid4 ids the rows of one run get.
AllocationRows(allocations, period_start, period_end, run) ==
    {[run |-> run,
      team_id |-> t,
      period_start |-> period_start,
      period_end |-> period_end,
      total_cost |-> allocations[t].total_cost,
      dbu_cost |-> allocations[t].dbu_cost,
      compute_cost |-> allocations[t].compute_cost,
      breakdown |-> [by_sku |-> allocations[t].by_sku,
                     by_workspace |-> allocations[t].by_workspace,
                     record_count |-> allocations[t].records],
      allocation_method |-> "rule_based"] : t \in DOMAIN allocations}

\* The summaries appended to results for the teams.
TeamSummaries(allocations, teams) ==
    {[team_id |-> t,
      team_name |-> IF t \in DOMAIN teams THEN teams[t].name ELSE "Unknown",
      total_cost |-> allocations[t].total_cost,
      dbu_cost |-> allocations[t].dbu_cost,
      record_count |-> allocations[t].records] : t \in DOMAIN allocations}

\* The summary appended for the unallocated records, if there are any.
UnallocatedSummary(unallocated) ==
    IF unallocated # <<>>
    THEN {[team_id |-> NoTeam,
           team_name |-> "Unallocated",
           total_cost |-> SumCost(unallocated, 1),
           dbu_cost |-> SumDbu(unallocated, 1),
           record_count |-> Len(unallocated)]}
    ELSE {}

\* ------------------------------------------------------------ query results

\* The permutations of a finite set, as sequences.
Perms(S) ==
    {f \in [1..Cardinality(S) -> S] : \A i, j \in 1..Cardinality(S) : f[i] = f[j] => i = j}

\* The query without its order_by: the active rules in any order.
ActiveRulesAnyOrder(rules) == Perms({r \in rules : r.is_active})

\* select(AllocationRule).where(is_active).order_by(priority): every order
\* the database may return, ties in priority in any order.
ActiveRulesByPriority(rules) ==
    LET active == {r \in rules : r.is_active}
    IN  {f \in Perms(active) : \A i, j \in 1..Len(f) : i < j => f[i].priority <= f[j].priority}

\* The email_to_team dict built from select(TeamMember): a later row
\* overwrites an earlier one with the same lowercased email, and the row
\* order is the database's.
EmailMaps(members) ==
    LET keys == {Lower(m.email) : m \in members}
    IN  {f \in [keys -> {m.team_id : m \in members}] :
            \A k \in keys : \E m \in members : Lower(m.email) = k /\ m.team_id = f[k]}

\* The iteration orders of the teams dict built from select(Team).
TeamOrders == Perms(TeamIds)

\* select(CostRecord).where(usage_date >= period_start, usage_date < period_end)
FetchRecords(records, period_start, period_end) ==
    Perms({r \in records : InWindow(r, period_start, period_end)})

\* ------------------------------------------------------------------- state

VARIABLES
    cost_records,       \* table cost_records: a set of rows
    allocation_rules,   \* table allocation_rules
    teams,              \* table teams: team id -> [name, tag_patterns]
    team_members,       \* table team_members: rows [email, team_id]
    cost_allocations,   \* table cost_allocations: the committed rows
    cost_forecasts,     \* table cost_forecasts: the committed rows
    req,                \* the API requests, each with its own get_db session
    clusters,           \* table cluster_info: the cluster snapshots
    alerts,             \* table alerts: the alert configurations
    recommendations,    \* table recommendations: the committed rows
    alert_history,      \* table alert_history: the committed rows
    notifications,      \* the notifications that left the process
    sched               \* the scheduler task and its analysis session

vars == <<cost_records, allocation_rules, teams, team_members,
          cost_allocations, cost_forecasts, req,
          clusters, alerts, recommendations, alert_history, notifications,
          sched>>

\* The concurrent API requests.
Requests == {"r1", "r2"}

Times == 0..(MaxTime - 1)

\* The windows a caller asks for: period_start < period_end.
Windows == {w \in (0..MaxTime) \X (0..MaxTime) : w[1] < w[2]}

\* A request before its handler runs: pc is "idle", then "returned" (the
\* handler returned and get_db is about to commit), "committed", "raised"
\* (an exception is propagating into get_db's except clause) or "failed"
\* (rolled back, the exception re-raised to the client).  period, fetched,
\* results and forecasts are the handler's locals at its return; an
\* exception unwinds them.  args are the parameters of a forecast request
\* and tried the models generate_forecast called.  new_allocations,
\* new_forecasts and new_recommendations are the rows the session holds
\* uncommitted.
IdleRequest ==
    [pc |-> "idle", kind |-> "none", period |-> <<0, 0>>, fetched |-> {},
     new_allocations |-> {}, new_forecasts |-> {}, new_recommendations |-> {},
     results |-> {}, forecasts |-> <<>>, args |-> <<>>, tried |-> {}]

\* The scheduler task before scheduler_loop runs: pc is "off", then per
\* iteration "collect", "alerts", "recommendations", "anomalies" (the three
\* stages of run_analysis_cycle inside its session), "commit" (the body of
\* get_session_ctx finished), "rollback" (an exception is propagating into
\* its except clause) and "sleep".  cycle counts the iterations, now is the
\* clock in minutes, stages the services the iteration has called, log the
\* error lines it wrote, outcome what became of each iteration's analysis
\* session, anomalies the count the last detection logged, and new_history
\* and new_recommendations the rows the session holds uncommitted.
IdleScheduler ==
    [pc |-> "off", cycle |-> 0, now |-> 0, stages |-> <<>>, log |-> <<>>,
     outcome |-> <<>>, anomalies |-> 0, new_history |-> {},
     new_recommendations |-> {}]

\* No scheduler task is running and its tables are empty.
SchedulerOff ==
    /\ clusters = {}
    /\ alerts = {}
    /\ recommendations = {}
    /\ alert_history = {}
    /\ notifications = {}
    /\ sched = IdleScheduler

\* ------------------------------------------------------------------- pools

PatA == Pattern(TRUE, FALSE, <<"a">>)
PatAnchoredB == Pattern(TRUE, TRUE, <<"b">>)
PatP == Pattern(TRUE, FALSE, <<"p">>)
PatEmpty == Pattern(TRUE, FALSE, <<>>)
PatBad == Pattern(FALSE, FALSE, <<>>)

Record(date, ws, sku, count, rate, cost, cluster, email, tags) ==
    [usage_date |-> date, workspace_id |-> ws, sku_name |-> sku,
     dbu_count |-> count, dbu_rate |-> rate, cost_usd |-> cost,
     cluster_name |-> cluster, user_email |-> email, tags |-> tags]

Rule(id, team, type, conditions, priority, active) ==
    [id |-> id, team_id |-> team, rule_type |-> type, conditions |-> conditions,
     priority |-> priority, is_active |-> active]

\* The rows allocation_rules is drawn from: every rule kind the engine knows,
\* the kind "percentage" it does not, an inactive rule, equal and different
\* priorities, a pattern list with an invalid pattern after a valid one and
\* one with only an invalid pattern.
RulePool ==
    {Rule(1, "t1", "tag_match", [tag_key |-> "env", tag_value |-> <<"p">>], 1, TRUE),
     Rule(2, "t2", "user_match", [emails |-> {<<"A">>}], 2, TRUE),
     Rule(3, "t1", "workspace_match", [workspace_ids |-> {"w1"}], 2, TRUE),
     Rule(4, "t2", "cluster_match", [cluster_name_patterns |-> <<PatA, PatBad>>], 1, TRUE),
     Rule(5, "t1", "cluster_match", [cluster_name_patterns |-> <<PatBad>>], 3, TRUE),
     Rule(6, "t2", "sku_match", [sku_names |-> {"s1"}], 3, TRUE),
     Rule(7, "t1", "percentage", [percentage |-> 50], 0, TRUE),
     Rule(8, "t2", "workspace_match", [workspace_ids |-> {"w1"}], 1, FALSE),
     Rule(9, "t2", "workspace_match", [workspace_ids |-> {"w1", "w2"}], 2, TRUE)}

\* The records the matching specification draws its one record from.
MatchRecordPool ==
    {Record(0, place[1], place[2], 2, 1, 3, cluster, email, tags) :
        place \in {<<"w1", "s1">>, <<"w2", "s1">>, <<"w2", "s2">>},
        cluster \in {<<>>, <<"a", "b">>, <<"b">>},
        email \in {<<>>, <<"a">>},
        tags \in {<<>>, [env |-> <<"p">>], [team |-> <<"a", "b">>]}}

\* The tag_patterns of teams t1 and t2.
TeamPatternPool ==
    {<< <<>>, <<>> >>,
     << << <<"env", PatP>> >>, << <<"team", PatA>> >> >>,
     << << <<"team", PatAnchoredB>>, <<"env", PatP>> >>, << <<"env", PatP>> >> >>,
     << << <<"env", PatBad>> >>, << <<"team", PatA>> >> >>,
     << << <<"env", PatP>>, <<"team", PatBad>> >>, <<>> >>,
     << << <<"owner", PatEmpty>> >>, << <<"team", PatA>> >> >>}

TeamsWith(patterns) ==
    [t \in TeamIds |->
        [name |-> IF t = "t1" THEN "platform" ELSE "data",
         tag_patterns |-> IF t = "t1" THEN patterns[1] ELSE patterns[2]]]

\* The rows of team_members: none, one, or the same address (up to case) in
\* both teams.
MemberPool ==
    {{},
     {[email |-> <<"A">>, team_id |-> "t2"]},
     {[email |-> <<"a">>, team_id |-> "t1"], [email |-> <<"A">>, team_id |-> "t2"]}}

\* The rows the transaction specification draws cost_records from, at every
\* timestamp: a record of workspace w1, a record with a user whose stored
\* cost is zero and differs from dbu_count * dbu_rate, and a record with a
\* cluster name.
MainRecordPool ==
    UNION {{Record(d, "w1", "s1", 1, 3, 3, <<>>, <<>>, <<>>),
            Record(d, "w2", "s2", 2, 1, 0, <<>>, <<"a">>, <<>>),
            Record(d, "w2", "s1", 1, 2, 2, <<"b">>, <<>>, <<>>)} : d \in Times}

RuleById(id) == CHOOSE r \in RulePool : r.id = id

\* The rule tables of the transaction specification: a workspace rule, alone
\* or with a cluster rule whose pattern does not compile, and a rule that
\* gives both workspaces to one team.
MainRuleSets == {{RuleById(3)}, {RuleById(3), RuleById(5)}, {RuleById(9)}}

\* --------------------------------------------------------------- the engine

Range(f) == {f[i] : i \in DOMAIN f}

\* CostAllocationService.allocate_costs up to its flush: what the handler
\* adds to the session and what it returns, or that it raised.
AllocateCosts(fetched, ctx, period_start, period_end, run) ==
    IF fetched = <<>>
    THEN [raised |-> FALSE, rows |-> {}, results |-> {}]
    ELSE LET acc == AllocateLoop(fetched, 1, ctx,
                        [allocations |-> <<>>, unallocated |-> <<>>, raised |-> FALSE])
         IN  IF acc.raised
             THEN [raised |-> TRUE, rows |-> {}, results |-> {}]
             ELSE [raised |-> FALSE,
                   rows |-> AllocationRows(acc.allocations, period_start, period_end, run),
                   results |-> TeamSummaries(acc.allocations, ctx.teams)
                               \cup UnallocatedSummary(acc.unallocated)]

\* A session in autocommit mode: the flushed INSERTs are visible at once.
VisibleAfterFlushAutocommit(rows) == rows

\* What session.flush() makes visible to other transactions: nothing, the
\* INSERTs stay inside the session's open transaction.
VisibleAfterFlush(rows) == {}

\* What is left in the session after session.rollback().
AfterRollback(rows) == {}

\* What one call of allocate_costs over the window w can do, for every order
\* its four queries may return their rows in: the records it fetched and
\* the outcome of AllocateCosts.
AllocationOutcomes(s, w) ==
    {[fetched |-> Range(fetched),
      out |-> AllocateCosts(fetched,
                            [rules |-> rules, email_to_team |-> email_to_team,
                             team_order |-> team_order, teams |-> teams],
                            w[1], w[2], s)] :
        fetched \in FetchRecords(cost_records, w[1], w[2]),
        rules \in ActiveRulesByPriority(allocation_rules),
        email_to_team \in EmailMaps(team_members),
        team_order \in TeamOrders}

\* POST /allocations/run: run_allocation inside get_db's session, up to the
\* return of the handler, for the window w.  faults are the outcomes of the
\* storage calls that can happen: "none", the first query raising, the flush
\* raising.
RunAllocationIn(s, w, faults) ==
    /\ req[s].pc = "idle"
    /\ \E run \in AllocationOutcomes(s, w), fault \in faults :
          LET out == run.out
              started == [req[s] EXCEPT !.kind = "alloc"]
          IN  /\ req' = [req EXCEPT ![s] =
                    IF fault = "query"
                    THEN [started EXCEPT !.pc = "raised"]
                    ELSE IF out.raised
                    THEN [started EXCEPT !.pc = "raised"]
                    ELSE IF fault = "flush" /\ out.rows # {}
                    THEN [started EXCEPT !.pc = "raised", !.new_allocations = out.rows]
                    ELSE [started EXCEPT !.pc = "returned", !.period = w,
                                         !.fetched = run.fetched,
                                         !.new_allocations = out.rows,
                                         !.results = out.results]]
              /\ cost_allocations' =
                    IF fault = "none" /\ ~out.raised
                    THEN cost_allocations \cup VisibleAfterFlush(out.rows)
                    ELSE cost_allocations
    /\ UNCHANGED <<clusters, alerts, recommendations, alert_history, notifications,
                   sched, cost_records, allocation_rules, teams, team_members, cost_forecasts>>

\* A request for any window, with or without a storage failure.
RunAllocation(s) ==
    \E w \in Windows : RunAllocationIn(s, w, {"none", "query", "flush"})

\* ---------------------------------------------------------- the forecaster

\* generate_forecast: `if len(historical) < 14`
MinHistory == 14
\* generate_forecast: lookback_days=90
LookbackDays == 90
\* datetime.utcnow(), in days: the day after the last day of the stores below.
Now == MinHistory
\* Largest horizon_days a caller asks for.
MaxHorizon == 2

NoWorkspace == "None"

Max(a, b) == IF a >= b THEN a ELSE b

\* func.date_trunc(trunc_func, usage_date), weeks starting at day 0.
DateTrunc(granularity, date) ==
    IF granularity = "weekly" THEN date - (date % 7) ELSE date

RECURSIVE SumOfCosts(_)
SumOfCosts(S) ==
    IF S = {} THEN 0
    ELSE LET r == CHOOSE r \in S : TRUE IN r.cost_usd + SumOfCosts(S \ {r})

RECURSIVE SumOfDbu(_)
SumOfDbu(S) ==
    IF S = {} THEN 0
    ELSE LET r == CHOOSE r \in S : TRUE IN r.dbu_count + SumOfDbu(S \ {r})

\* A finite set of integers in increasing order.
RECURSIVE Ascending(_)
Ascending(S) ==
    IF S = {} THEN <<>>
    ELSE LET m == CHOOSE m \in S : \A k \in S : m <= k
         IN  <<m>> \o Ascending(S \ {m})

\* ForecastService._get_historical_costs: one bucket per truncated date, in
\* date order.
GetHistoricalCosts(records, workspace_id, granularity) ==
    LET start_date == Now - LookbackDays
        rows == {r \in records :
                    /\ r.usage_date >= start_date
                    /\ workspace_id # NoWorkspace => r.workspace_id = workspace_id}
        periods == Ascending({DateTrunc(granularity, r.usage_date) : r \in rows})
    IN  [i \in 1..Len(periods) |->
            LET bucket == {r \in rows : DateTrunc(granularity, r.usage_date) = periods[i]}
            IN  [date |-> periods[i], cost |-> SumOfCosts(bucket), dbu |-> SumOfDbu(bucket)]]

RECURSIVE SumTo(_, _, _)
\* sum of F[i] for i in lo..hi
SumTo(F, lo, hi) == IF lo > hi THEN 0 ELSE F[lo] + SumTo(F, lo + 1, hi)

\* The integer part of a square root.
ISqrt(k) == CHOOSE r \in 0..k : r * r <= k /\ (r + 1) * (r + 1) > k

\* np.polyfit(x, costs, 1) for x = 0..n-1, as the exact fractions
\* slope = num / den and intercept = inum / (n * den).
PolyFit(costs) ==
    LET n == Len(costs)
        Sx == SumTo([i \in 1..n |-> i - 1], 1, n)
        Sxx == SumTo([i \in 1..n |-> (i - 1) * (i - 1)], 1, n)
        Sy == SumTo(costs, 1, n)
        Sxy == SumTo([i \in 1..n |-> (i - 1) * costs[i]], 1, n)
        den == n * Sxx - Sx * Sx
        num == n * Sxy - Sx * Sy
    IN  [n |-> n, num |-> num, den |-> den, inum |-> den * Sy - num * Sx]

\* slope * x + intercept, rounded down to an integer amount.
PolyVal(fit, x) == (fit.n * fit.num * x + fit.inum) \div (fit.n * fit.den)

\* _linear_forecast with lower_bound = predicted - margin, not clamped.
LinearForecastUnclampedLower(historical, horizon_days) ==
    LET costs == [i \in 1..Len(historical) |-> historical[i].cost]
        n == Len(costs)
        fit == PolyFit(costs)
        residuals == [i \in 1..n |-> costs[i] - PolyVal(fit, i - 1)]
        std_dev == ISqrt(SumTo([i \in 1..n |-> residuals[i] * residuals[i]], 1, n) \div n)
        margin == (196 * std_dev) \div 100
        last_date == historical[n].date
    IN  [i \in 1..horizon_days |->
            LET future_x == n + i - 1
                predicted_cost == Max(0, PolyVal(fit, future_x))
            IN  [date |-> last_date + i,
                 predicted_cost |-> predicted_cost,
                 lower_bound |-> predicted_cost - margin,
                 upper_bound |-> predicted_cost + margin,
                 model |-> "linear",
                 metrics |-> [slope |-> fit.num \div fit.den,
                              intercept |-> fit.inum \div (fit.n * fit.den),
                              std_dev |-> std_dev]]]

\* _linear_forecast with future_x = len(costs) + i, one day too far.
LinearForecastSkipsDay(historical, horizon_days) ==
    LET costs == [i \in 1..Len(historical) |-> historical[i].cost]
        n == Len(costs)
        fit == PolyFit(costs)
        residuals == [i \in 1..n |-> costs[i] - PolyVal(fit, i - 1)]
        std_dev == ISqrt(SumTo([i \in 1..n |-> residuals[i] * residuals[i]], 1, n) \div n)
        margin == (196 * std_dev) \div 100
        last_date == historical[n].date
    IN  [i \in 1..horizon_days |->
            LET future_x == n + i
                predicted_cost == Max(0, PolyVal(fit, future_x))
            IN  [date |-> last_date + i,
                 predicted_cost |-> predicted_cost,
                 lower_bound |-> Max(0, predicted_cost - margin),
                 upper_bound |-> predicted_cost + margin,
                 model |-> "linear",
                 metrics |-> [slope |-> fit.num \div fit.den,
                              intercept |-> fit.inum \div (fit.n * fit.den),
                              std_dev |-> std_dev]]]

\* ForecastService._linear_forecast
LinearForecast(historical, horizon_days) ==
    LET costs == [i \in 1..Len(historical) |-> historical[i].cost]
        n == Len(costs)
        fit == PolyFit(costs)
        residuals == [i \in 1..n |-> costs[i] - PolyVal(fit, i - 1)]
        std_dev == ISqrt(SumTo([i \in 1..n |-> residuals[i] * residuals[i]], 1, n) \div n)
        margin == (196 * std_dev) \div 100
        last_date == historical[n].date
    IN  [i \in 1..horizon_days |->
            LET future_x == n + i - 1
                predicted_cost == Max(0, PolyVal(fit, future_x))
            IN  [date |-> last_date + i,
                 predicted_cost |-> predicted_cost,
                 lower_bound |-> Max(0, predicted_cost - margin),
                 upper_bound |-> predicted_cost + margin,
                 model |-> "linear",
                 metrics |-> [slope |-> fit.num \div fit.den,
                              intercept |-> fit.inum \div (fit.n * fit.den),
                              std_dev |-> std_dev]]]

\* What the fitted Prophet model can predict for a future date:
\* <<yhat, yhat_lower, yhat_upper>>.
ProphetOutputs == {<<12, 8, 16>>, <<-4, -9, -1>>}

\* ForecastService._prophet_forecast, the library having predicted out for
\* each of the horizon_days future dates.
ProphetForecast(historical, horizon_days, out) ==
    LET last_date == historical[Len(historical)].date
    IN  [i \in 1..horizon_days |->
            [date |-> last_date + i,
             predicted_cost |-> Max(0, out[1]),
             lower_bound |-> Max(0, out[2]),
             upper_bound |-> out[3],
             model |-> "prophet",
             metrics |-> <<>>]]

\* The CostForecast objects generate_forecast adds to its session.
ForecastRows(forecasts, workspace_id, team_id, granularity, run) ==
    {[run |-> run,
      workspace_id |-> workspace_id,
      team_id |-> team_id,
      forecast_date |-> forecasts[i].date,
      predicted_cost |-> forecasts[i].predicted_cost,
      lower_bound |-> forecasts[i].lower_bound,
      upper_bound |-> forecasts[i].upper_bound,
      confidence_level |-> 95,
      model_type |-> forecasts[i].model,
      granularity |-> granularity,
      model_metrics |-> forecasts[i].metrics] : i \in 1..Len(forecasts)}

\* generate_forecast running its model on any history of two buckets.
ForecastPointsShortHistory(records, horizon_days, workspace_id, granularity, prophet) ==
    LET historical == GetHistoricalCosts(records, workspace_id, granularity)
    IN  IF Len(historical) < 2 THEN [tried |-> {}, forecasts |-> <<>>]
        ELSE IF prophet = <<>>
        THEN [tried |-> {"prophet", "linear"},
              forecasts |-> LinearForecast(historical, horizon_days)]
        ELSE [tried |-> {"prophet"},
              forecasts |-> ProphetForecast(historical, horizon_days, prophet)]

\* generate_forecast swallowing the primary model's exception without
\* running the linear model.
ForecastPointsNoFallback(records, horizon_days, workspace_id, granularity, prophet) ==
    LET historical == GetHistoricalCosts(records, workspace_id, granularity)
    IN  IF Len(historical) < MinHistory THEN [tried |-> {}, forecasts |-> <<>>]
        ELSE IF prophet = <<>>
        THEN [tried |-> {"prophet"}, forecasts |-> <<>>]
        ELSE [tried |-> {"prophet"},
              forecasts |-> ProphetForecast(historical, horizon_days, prophet)]

\* ForecastService.generate_forecast up to its flush: the models it called
\* and the points it got.  prophet is <<>> when _prophet_forecast raises
\* (the library missing, or its fit failing), else what the library
\* predicts.
ForecastPoints(records, horizon_days, workspace_id, granularity, prophet) ==
    LET historical == GetHistoricalCosts(records, workspace_id, granularity)
    IN  IF Len(historical) < MinHistory THEN [tried |-> {}, forecasts |-> <<>>]
        ELSE IF prophet = <<>>
        THEN [tried |-> {"prophet", "linear"},
              forecasts |-> LinearForecast(historical, horizon_days)]
        ELSE [tried |-> {"prophet"},
              forecasts |-> ProphetForecast(historical, horizon_days, prophet)]

\* POST /forecasts/generate: generate_forecast inside get_db's session, up to
\* the return of the handler.  prophet = <<>> stands for the primary model
\* raising.
GenerateForecast(s) ==
    /\ req[s].pc = "idle"
    /\ \E horizon_days \in 1..MaxHorizon, workspace_id \in {NoWorkspace, "w1"},
          granularity \in {"daily", "weekly"},
          prophet \in ProphetOutputs \cup {<<>>} :
          LET points == ForecastPoints(cost_records, horizon_days, workspace_id,
                                       granularity, prophet)
              forecasts == points.forecasts
              rows == ForecastRows(forecasts, workspace_id, NoTeam, granularity, s)
              started == [req[s] EXCEPT !.kind = "forecast"]
              queried == [started EXCEPT
                             !.args = [horizon_days |-> horizon_days,
                                       workspace_id |-> workspace_id,
                                       granularity |-> granularity],
                             !.tried = points.tried,
                             !.new_forecasts = rows]
          IN  \E fault \in {"none", "query", "flush"} :
              /\ req' = [req EXCEPT ![s] =
                    IF fault = "query"
                    THEN [started EXCEPT !.pc = "raised"]
                    ELSE IF fault = "flush" /\ rows # {}
                    THEN [queried EXCEPT !.pc = "raised"]
                    ELSE [queried EXCEPT !.pc = "returned", !.forecasts = forecasts]]
              /\ cost_forecasts' =
                    IF fault = "none"
                    THEN cost_forecasts \cup VisibleAfterFlush(rows)
                    ELSE cost_forecasts
    /\ UNCHANGED <<clusters, alerts, recommendations, alert_history, notifications,
                   sched, cost_records, allocation_rules, teams, team_members, cost_allocations>>

\* ------------------------------------------------------ the anomaly detector

\* _find_zscore_anomalies: window = min(7, len(arr) - 1)
RollingWindow == 7
\* _detect_daily_spikes: `if len(rows) < 7`
MinBuckets == 7
\* detect_anomalies: lookback_days = 30
AnomalyLookbackDays == 30
\* Most daily buckets of a series in the stores below.
MaxDays == 9

Min(a, b) == IF a <= b THEN a ELSE b

\* The default sensitivity 2.0, and the thresholds 3 and 2.5 of the
\* severity, as fractions <<numerator, denominator>>.
DefaultSensitivity == <<2, 1>>
CriticalAbove == <<3, 1>>
HighAbove == <<5, 2>>

\* The rows of a GROUP BY date_trunc('day', usage_date) ORDER BY day query
\* over rows: one [day, daily_cost] per day that has a record.
DailyBuckets(rows) ==
    LET days == Ascending({r.usage_date : r \in rows})
    IN  [i \in 1..Len(days) |->
            [day |-> days[i],
             daily_cost |-> SumOfCosts({r \in rows : r.usage_date = days[i]})]]

\* np.mean and np.std of window_data, exactly: mean = sum / n and
\* std = sqrt(spread) / n, with spread = n * sum of squares - sum^2.
WindowStats(window_data) ==
    LET n == Len(window_data)
        sum == SumTo(window_data, 1, n)
        squares == SumTo([k \in 1..n |-> window_data[k] * window_data[k]], 1, n)
    IN  [n |-> n, sum |-> sum, spread |-> n * squares - sum * sum]

\* z_score = (arr[i] - mean) / std as the exact pair: z = num / sqrt(spread).
ZScore(value, stats) == [num |-> stats.n * value - stats.sum, spread |-> stats.spread]

\* The comparison with `>=` for `>`.
AbsReaches(z, threshold) ==
    z.num * z.num * threshold[2] * threshold[2] >= threshold[1] * threshold[1] * z.spread

\* abs(z_score) > threshold
AbsExceeds(z, threshold) ==
    z.num * z.num * threshold[2] * threshold[2] > threshold[1] * threshold[1] * z.spread

\* The dict with its direction taken from the sign of the value instead of
\* the sign of the z-score.
AnomalyAtSignOfValue(values, dates, dimension, i, stats) ==
    LET z_score == ZScore(values[i], stats)
    IN  [dimension |-> dimension,
         date |-> dates[i],
         value |-> values[i],
         expected |-> <<stats.sum, stats.n>>,
         z_score |-> z_score,
         pct_change |-> IF stats.sum > 0
                        THEN (z_score.num * 100) \div stats.sum
                        ELSE 0,
         severity |-> IF AbsExceeds(z_score, CriticalAbove) THEN "critical"
                      ELSE IF AbsExceeds(z_score, HighAbove) THEN "high"
                      ELSE "medium",
         direction |-> IF values[i] > 0 THEN "spike" ELSE "drop"]

\* The dict appended for index i (1-based) of the series.
AnomalyAt(values, dates, dimension, i, stats) ==
    LET z_score == ZScore(values[i], stats)
    IN  [dimension |-> dimension,
         date |-> dates[i],
         value |-> values[i],
         expected |-> <<stats.sum, stats.n>>,
         z_score |-> z_score,
         pct_change |-> IF stats.sum > 0
                        THEN (z_score.num * 100) \div stats.sum
                        ELSE 0,
         severity |-> IF AbsExceeds(z_score, CriticalAbove) THEN "critical"
                      ELSE IF AbsExceeds(z_score, HighAbove) THEN "high"
                      ELSE "medium",
         direction |-> IF z_score.num > 0 THEN "spike" ELSE "drop"]

\* The loop without `if std == 0: continue`: the division by a zero std
\* gives inf (or nan for 0 / 0), and abs(inf) exceeds every sensitivity.
RECURSIVE ZscoreLoopNoSkip(_, _, _, _, _, _)
ZscoreLoopNoSkip(values, dates, dimension, sensitivity, window, i) ==
    IF i > Len(values) THEN <<>>
    ELSE LET window_data == SubSeq(values, Max(1, i - window), i - 1)
             stats == WindowStats(window_data)
             rest == ZscoreLoopNoSkip(values, dates, dimension, sensitivity, window, i + 1)
         IN  IF AbsExceeds(ZScore(values[i], stats), sensitivity)
             THEN <<AnomalyAt(values, dates, dimension, i, stats)>> \o rest
             ELSE rest

\* The loop with window_data = arr[max(0, i - window):i + 1]: the value at i
\* is part of its own baseline.
RECURSIVE ZscoreLoopOwnValue(_, _, _, _, _, _)
ZscoreLoopOwnValue(values, dates, dimension, sensitivity, window, i) ==
    IF i > Len(values) THEN <<>>
    ELSE LET window_data == SubSeq(values, Max(1, i - window), i)
             stats == WindowStats(window_data)
             rest == ZscoreLoopOwnValue(values, dates, dimension, sensitivity, window, i + 1)
         IN  IF stats.spread = 0 THEN rest
             ELSE IF AbsExceeds(ZScore(values[i], stats), sensitivity)
             THEN <<AnomalyAt(values, dates, dimension, i, stats)>> \o rest
             ELSE rest

\* The loop `for i in range(window, len(arr))` of _find_zscore_anomalies from
\* the 1-based index i on.
RECURSIVE ZscoreLoop(_, _, _, _, _, _)
ZscoreLoop(values, dates, dimension, sensitivity, window, i) ==
    IF i > Len(values) THEN <<>>
    ELSE LET window_data == SubSeq(values, Max(1, i - window), i - 1)
             stats == WindowStats(window_data)
             rest == ZscoreLoop(values, dates, dimension, sensitivity, window, i + 1)
         IN  IF stats.spread = 0 THEN rest
             ELSE IF AbsExceeds(ZScore(values[i], stats), sensitivity)
             THEN <<AnomalyAt(values, dates, dimension, i, stats)>> \o rest
             ELSE rest

\* AnomalyDetectionService._find_zscore_anomalies
FindZscoreAnomalies(values, dates, dimension, sensitivity) ==
    LET window == Min(RollingWindow, Len(values) - 1)
    IN  ZscoreLoop(values, dates, dimension, sensitivity, window, window + 1)

\* The records the three queries select: usage_date >= utcnow() - lookback.
Recent(records, lookback_days) ==
    {r \in records : r.usage_date >= Now - lookback_days}

\* AnomalyDetectionService._detect_daily_spikes
DetectDailySpikes(records, lookback_days, sensitivity) ==
    LET rows == DailyBuckets(Recent(records, lookback_days))
    IN  IF Len(rows) < MinBuckets THEN <<>>
        ELSE FindZscoreAnomalies([i \in 1..Len(rows) |-> rows[i].daily_cost],
                                 [i \in 1..Len(rows) |-> rows[i].day],
                                 <<"daily_total">>, sensitivity)

\* ORDER BY on the ids of the stores below.
KeyOrder == <<"s1", "s2", "w1", "w2">>

\* The keys of keys in ORDER BY order: the insertion order of the dict the
\* rows are grouped into.
KeysInOrder(keys) == SelectSeq(KeyOrder, LAMBDA k : k \in keys)

\* The loop with `return anomalies` for `continue`: a short series ends it.
RECURSIVE SpikesLoopReturn(_, _, _, _, _, _)
SpikesLoopReturn(rows, field, label, keys, sensitivity, i) ==
    IF i > Len(keys) THEN <<>>
    ELSE LET buckets == DailyBuckets({r \in rows : r[field] = keys[i]})
             costs == [k \in 1..Len(buckets) |-> buckets[k].daily_cost]
             dates == [k \in 1..Len(buckets) |-> buckets[k].day]
         IN  IF Len(costs) < MinBuckets THEN <<>>
             ELSE FindZscoreAnomalies(costs, dates, <<label, keys[i]>>, sensitivity)
                  \o SpikesLoopReturn(rows, field, label, keys, sensitivity, i + 1)

\* The loop over workspace_data.items() (or sku_data.items()) from the i-th
\* key on: a series of fewer than 7 buckets is passed over.
RECURSIVE SpikesLoop(_, _, _, _, _, _)
SpikesLoop(rows, field, label, keys, sensitivity, i) ==
    IF i > Len(keys) THEN <<>>
    ELSE LET buckets == DailyBuckets({r \in rows : r[field] = keys[i]})
             costs == [k \in 1..Len(buckets) |-> buckets[k].daily_cost]
             dates == [k \in 1..Len(buckets) |-> buckets[k].day]
             rest == SpikesLoop(rows, field, label, keys, sensitivity, i + 1)
         IN  IF Len(costs) < MinBuckets THEN rest
             ELSE FindZscoreAnomalies(costs, dates, <<label, keys[i]>>, sensitivity)
                  \o rest

\* AnomalyDetectionService._detect_workspace_spikes
DetectWorkspaceSpikes(records, lookback_days, sensitivity) ==
    LET rows == Recent(records, lookback_days)
    IN  SpikesLoop(rows, "workspace_id", "workspace",
                   KeysInOrder({r.workspace_id : r \in rows}), sensitivity, 1)

\* AnomalyDetectionService._detect_sku_spikes
DetectSkuSpikes(records, lookback_days, sensitivity) ==
    LET rows == Recent(records, lookback_days)
    IN  SpikesLoop(rows, "sku_name", "sku",
                   KeysInOrder({r.sku_name : r \in rows}), sensitivity, 1)

\* AnomalyDetectionService.detect_anomalies
DetectAnomaliesList(records, lookback_days, sensitivity) ==
    DetectDailySpikes(records, lookback_days, sensitivity)
    \o DetectWorkspaceSpikes(records, lookback_days, sensitivity)
    \o DetectSkuSpikes(records, lookback_days, sensitivity)

\* The sensitivities a caller passes.
Sensitivities == {<<1, 2>>, DefaultSensitivity, <<4, 1>>}

\* run_analysis_cycle's anomaly step: detect_anomalies inside a session, up
\* to its return.  The detector only reads; sensitivity is kept in period.
DetectAnomalies(s) ==
    /\ req[s].pc = "idle"
    /\ \E sensitivity \in Sensitivities, fault \in {"none", "query"} :
          req' = [req EXCEPT ![s] =
                    IF fault = "query"
                    THEN [@ EXCEPT !.pc = "raised", !.kind = "anomaly"]
                    ELSE [@ EXCEPT !.pc = "returned", !.kind = "anomaly",
                                   !.period = sensitivity,
                                   !.results = DetectAnomaliesList(cost_records,
                                                   AnomalyLookbackDays, sensitivity)]]
    /\ UNCHANGED <<clusters, alerts, recommendations, alert_history, notifications,
                   sched, cost_records, allocation_rules, teams, team_members,
                   cost_allocations, cost_forecasts>>

\* ------------------------------------------------------ the forecast summary

\* The rows of select(CostForecast).where(forecast_date >= utcnow())
\* .order_by(forecast_date).limit(horizon_days): every list the database may
\* return, rows of one date in any order.  Forecast dates are midnights, so
\* a row dated today passes the filter only when utcnow() is midnight.
SummaryRows(table, horizon_days, midnight) ==
    LET rows == {f \in table :
                    \/ f.forecast_date > Now
                    \/ midnight /\ f.forecast_date = Now}
        k == Min(horizon_days, Cardinality(rows))
    IN  {q \in [1..k -> rows] :
            /\ \A i, j \in 1..k :
                  i < j => q[i] # q[j] /\ q[i].forecast_date <= q[j].forecast_date
            /\ \A f \in rows \ Range(q) :
                  \A i \in 1..k : q[i].forecast_date <= f.forecast_date}

\* The dict get_forecast_summary returns for the rows it fetched.
ForecastSummary(forecasts) ==
    IF forecasts = <<>>
    THEN [status |-> "no_forecasts", data |-> <<>>]
    ELSE LET total_predicted ==
                 SumTo([i \in 1..Len(forecasts) |-> forecasts[i].predicted_cost],
                       1, Len(forecasts))
         IN  [status |-> "ok",
              horizon_days |-> Len(forecasts),
              total_predicted_cost |-> total_predicted,
              avg_daily_cost |-> total_predicted \div Len(forecasts),
              data |-> [i \in 1..Len(forecasts) |->
                           [date |-> forecasts[i].forecast_date,
                            predicted |-> forecasts[i].predicted_cost,
                            lower |-> forecasts[i].lower_bound,
                            upper |-> forecasts[i].upper_bound]]]

\* GET /forecasts/summary: get_forecast_summary inside get_db's session, up
\* to the return of the handler.  It reads the committed rows.
GetForecastSummary(s) ==
    /\ req[s].pc = "idle"
    /\ \E horizon_days \in 1..MaxHorizon, midnight \in BOOLEAN,
          fault \in {"none", "query"} :
          IF fault = "query"
          THEN req' = [req EXCEPT ![s] = [@ EXCEPT !.pc = "raised", !.kind = "summary"]]
          ELSE \E forecasts \in SummaryRows(cost_forecasts, horizon_days, midnight) :
                  req' = [req EXCEPT ![s] =
                            [@ EXCEPT !.pc = "returned", !.kind = "summary",
                                      !.fetched = Range(forecasts),
                                      !.results = ForecastSummary(forecasts)]]
    /\ UNCHANGED <<clusters, alerts, recommendations, alert_history, notifications,
                   sched, cost_records, allocation_rules, teams, team_members,
                   cost_allocations, cost_forecasts>>

\* ------------------------------------------------------------ the get_db end

\* A commit that rejects a run when the table already holds rows.
TableAfterCommitOnce(table, rows) == IF table # {} THEN table ELSE table \cup rows

\* A commit that replaces the rows of earlier runs by the new ones.
TableAfterCommitReplace(table, rows) == IF rows # {} THEN rows ELSE table

\* The table after session.commit(): the session's new rows are inserted.
TableAfterCommit(table, rows) == table \cup rows

\* get_db after the handler returned: session.commit() succeeds.
Commit(s) ==
    /\ req[s].pc = "returned"
    /\ cost_allocations' = TableAfterCommit(cost_allocations, req[s].new_allocations)
    /\ cost_forecasts' = TableAfterCommit(cost_forecasts, req[s].new_forecasts)
    /\ recommendations' =
          TableAfterCommit(recommendations, req[s].new_recommendations)
    /\ req' = [req EXCEPT ![s].pc = "committed"]
    /\ UNCHANGED <<clusters, alerts, alert_history, notifications, sched,
                   cost_records, allocation_rules, teams, team_members>>

\* get_db after the handler returned: session.commit() raises.
CommitFails(s) ==
    /\ req[s].pc = "returned"
    /\ req' = [req EXCEPT ![s].pc = "raised", ![s].period = <<0, 0>>,
                          ![s].fetched = {}, ![s].results = {},
                          ![s].forecasts = <<>>, ![s].args = <<>>,
                          ![s].tried = {}]
    /\ UNCHANGED <<clusters, alerts, recommendations, alert_history, notifications,
                   sched, cost_records, allocation_rules, teams, team_members,
                   cost_allocations, cost_forecasts>>

\* get_db's except clause: session.rollback(), then the exception is re-raised.
Rollback(s) ==
    /\ req[s].pc = "raised"
    /\ req' = [req EXCEPT ![s].pc = "failed",
                          ![s].new_allocations = AfterRollback(@),
                          ![s].new_forecasts = AfterRollback(@),
                          ![s].new_recommendations = AfterRollback(@)]
    /\ UNCHANGED <<clusters, alerts, recommendations, alert_history, notifications,
                   sched, cost_records, allocation_rules, teams, team_members,
                   cost_allocations, cost_forecasts>>

\* ---------------------------------------------------------- specifications

InitTables ==
    /\ cost_allocations = {}
    /\ cost_forecasts = {}
    /\ req = [s \in Requests |-> IdleRequest]
    /\ SchedulerOff

\* Concurrent requests over a small store.
Init ==
    /\ cost_records \in {S \in SUBSET MainRecordPool : Cardinality(S) <= MaxRecords}
    /\ allocation_rules \in MainRuleSets
    /\ teams = TeamsWith(<< << <<"env", PatP>> >>, << <<"team", PatA>> >> >>)
    /\ team_members = {[email |-> <<"A">>, team_id |-> "t2"]}
    /\ InitTables

Next ==
    \/ \E s \in Requests : RunAllocation(s)
    \/ \E s \in Requests : Commit(s)
    \/ \E s \in Requests : CommitFails(s)
    \/ \E s \in Requests : Rollback(s)

Spec == Init /\ [][Next]_vars

\* One request over one record and every combination of rules, tag patterns
\* and members.
InitMatch ==
    /\ cost_records \in {{r} : r \in MatchRecordPool}
    /\ allocation_rules \in {S \in SUBSET RulePool : Cardinality(S) <= MaxRules}
    /\ teams \in {TeamsWith(p) : p \in TeamPatternPool}
    /\ team_members \in MemberPool
    /\ InitTables

NextMatch ==
    \/ RunAllocationIn("r1", <<0, MaxTime>>, {"none"})
    \/ Commit("r1")
    \/ Rollback("r1")

SpecMatch == InitMatch /\ [][NextMatch]_vars

\* A store of one record per day for the first days days: cost base + step
\* per day, every other_ws-th day in workspace w2.
DailyStore(days, base, step, other_ws) ==
    {Record(d, IF d % other_ws = other_ws - 1 THEN "w2" ELSE "w1", "s1",
            base + step * d, 1, base + step * d, <<>>, <<>>, <<>>) : d \in 0..(days - 1)}

\* A store of one record per day for the first days days, costing high on
\* the even days and low on the odd ones.
ZigzagStore(days, low, high) ==
    {Record(d, "w1", "s1", 1, 1, IF d % 2 = 0 THEN high ELSE low, <<>>, <<>>, <<>>) :
        d \in 0..(days - 1)}

\* Allocation and forecast requests over a store with enough history, a
\* store one day short of it, and a store with two workspaces.
InitRuns ==
    /\ cost_records \in {DailyStore(MinHistory, 10, 1, MinHistory + 1),
                         DailyStore(MinHistory - 1, 10, 0, MinHistory + 1),
                         DailyStore(MinHistory, 10, 0, 2)}
    /\ allocation_rules = {RuleById(3)}
    /\ teams = TeamsWith(<< <<>>, <<>> >>)
    /\ team_members = {}
    /\ InitTables

NextRuns ==
    \/ \E s \in Requests : RunAllocation(s)
    \/ \E s \in Requests : GenerateForecast(s)
    \/ \E s \in Requests : Commit(s)
    \/ \E s \in Requests : CommitFails(s)
    \/ \E s \in Requests : Rollback(s)

SpecRuns == InitRuns /\ [][NextRuns]_vars

\* The records of the email specification: one user in both cases, another
\* user, and no user.
EmailRecordPool ==
    {Record(0, "w1", "s1", 2, 1, 3, <<>>, email, <<>>) :
        email \in {<<>>, <<"a">>, <<"A">>, <<"b">>}}

\* The rules of the email specification: user_match rules whose emails
\* differ in case from one another and from the records, and a sku rule of
\* a later priority that matches every record.
EmailRulePool ==
    {RuleById(2),
     Rule(10, "t1", "user_match", [emails |-> {<<"a">>, <<"B">>}], 3, TRUE),
     Rule(11, "t1", "user_match", [emails |-> {<<"b">>}], 1, TRUE),
     Rule(12, "t2", "sku_match", [sku_names |-> {"s1"}], 4, TRUE)}

\* One request over one record with a user, user_match rules and members.
InitEmail ==
    /\ cost_records \in {{r} : r \in EmailRecordPool}
    /\ allocation_rules \in {S \in SUBSET EmailRulePool : Cardinality(S) <= MaxRules}
    /\ teams = TeamsWith(<< <<>>, <<>> >>)
    /\ team_members \in MemberPool \cup {{[email |-> <<"B">>, team_id |-> "t1"]}}
    /\ InitTables

NextEmail ==
    \/ RunAllocationIn("r1", <<0, MaxTime>>, {"none", "query"})
    \/ Commit("r1")
    \/ Rollback("r1")

SpecEmail == InitEmail /\ [][NextEmail]_vars

\* The stores of the forecast specification: those of the runs above, the
\* rising and the constant series of the unit tests, a series falling to
\* zero and a noisy one.
ForecastStores ==
    {DailyStore(MinHistory, 10, 1, MinHistory + 1),
     DailyStore(MinHistory - 1, 10, 0, MinHistory + 1),
     DailyStore(MinHistory, 10, 0, 2),
     DailyStore(MinHistory, 1000, 10, MinHistory + 1),
     DailyStore(MinHistory, 1000, 0, MinHistory + 1),
     DailyStore(MinHistory, 26, -2, MinHistory + 1),
     ZigzagStore(MinHistory, 0, 20)}

\* The rows an earlier generate_forecast request, r0, committed the same
\* day: the primary model's, for the longest horizon.
EarlierRun(records) ==
    ForecastRows(ForecastPoints(records, MaxHorizon, NoWorkspace, "daily",
                                <<12, 8, 16>>).forecasts,
                 NoWorkspace, NoTeam, "daily", "r0")

\* One generate request and one summary request, over a table that is
\* empty or holds the rows of an earlier run.
InitForecast ==
    /\ cost_records \in ForecastStores
    /\ allocation_rules = {}
    /\ teams = TeamsWith(<< <<>>, <<>> >>)
    /\ team_members = {}
    /\ cost_allocations = {}
    /\ cost_forecasts \in {{}, EarlierRun(cost_records)}
    /\ req = [s \in Requests |-> IdleRequest]
    /\ SchedulerOff

NextForecast ==
    \/ GenerateForecast("r1")
    \/ GetForecastSummary("r2")
    \/ \E s \in Requests : Commit(s)
    \/ \E s \in Requests : CommitFails(s)
    \/ \E s \in Requests : Rollback(s)

SpecForecast == InitForecast /\ [][NextForecast]_vars

\* The first seven daily costs of a series: a ramp of mean 13 and standard
\* deviation 2, the same values out of order, two constant weeks, and a week
\* with one day one unit up.
BaseWindows ==
    {<<10, 11, 12, 13, 14, 15, 16>>,
     <<13, 10, 16, 11, 15, 12, 14>>,
     <<13, 13, 13, 13, 13, 13, 13>>,
     <<0, 0, 0, 0, 0, 0, 0>>,
     <<10, 10, 10, 11, 10, 10, 10>>}

\* The daily costs that follow the first week: on the ramp they are 5
\* standard deviations below the mean and 2, 2.5, 3 and 3.5 above it.
TailValues == {3, 17, 18, 19, 20}

\* The daily cost series of workspace w1: a week, followed by up to
\* MaxDays - 7 more days, or cut to six days.
SeriesPool ==
    {SubSeq(w, 1, RollingWindow - 1) : w \in BaseWindows}
    \cup UNION {{w \o t : t \in [1..k -> TailValues]} :
                    w \in BaseWindows, k \in 0..(MaxDays - RollingWindow)}

\* The daily cost series of workspace w2 and the SKU of w1's records:
\* w2 absent, with six days, with a constant series and with a ramp ending
\* in a spike.
SecondSeriesPool ==
    {<< <<>>, "s1" >>,
     << <<1, 2, 3, 4, 5, 6>>, "s1" >>,
     << <<5, 5, 5, 5, 5, 5, 5, 5>>, "s2" >>,
     << <<10, 11, 12, 13, 14, 15, 16, 20>>, "s1" >>}

\* One record per day of a series.
SeriesRecords(series, ws, sku) ==
    {Record(d - 1, ws, sku, 1, series[d], series[d], <<>>, <<>>, <<>>) : d \in 1..Len(series)}

\* The detector over the daily series of two workspaces; the records of w2
\* have SKU s2, so that SKU s2 is w2's series or the sum of both.
InitDetect ==
    /\ \E first \in SeriesPool, second \in SecondSeriesPool :
          cost_records = SeriesRecords(first, "w1", second[2])
                         \cup SeriesRecords(second[1], "w2", "s2")
    /\ allocation_rules = {}
    /\ teams = TeamsWith(<< <<>>, <<>> >>)
    /\ team_members = {}
    /\ InitTables

NextDetect ==
    \/ DetectAnomalies("r1")
    \/ Commit("r1")
    \/ Rollback("r1")

SpecDetect == InitDetect /\ [][NextDetect]_vars

\* ------------------------------------------------------------------ claims

\* The request s is an allocation run whose handler returned normally.
AllocReturned(s) ==
    /\ req[s].kind = "alloc"
    /\ req[s].pc \in {"returned", "committed"}

\* The committed CostAllocation rows written by request s.
RowsOf(s) == {row \in cost_allocations : row.run = s}

\* The records of the store whose timestamp lies in [a, b).
RecordsBetween(a, b) == {r \in cost_records : a <= r.usage_date /\ r.usage_date < b}

RECURSIVE SumTotalCost(_)
SumTotalCost(S) ==
    IF S = {} THEN 0
    ELSE LET e == CHOOSE e \in S : TRUE IN e.total_cost + SumTotalCost(S \ {e})

RECURSIVE SumRecordCount(_)
SumRecordCount(S) ==
    IF S = {} THEN 0
    ELSE LET e == CHOOSE e \in S : TRUE IN e.record_count + SumRecordCount(S \ {e})

\* C1: the summaries an allocation run returns partition the records of its
\* window: their total_cost (teams and Unallocated together) adds up to the
\* cost of all records in the window, and their record_count to the number
\* of those records.
C1_Conservation ==
    \A s \in Requests :
        AllocReturned(s) =>
            LET in_window == RecordsBetween(req[s].period[1], req[s].period[2])
            IN  /\ SumTotalCost(req[s].results) = SumOfCosts(in_window)
                /\ SumRecordCount(req[s].results) = Cardinality(in_window)

\* A run returned a team summary and an Unallocated summary over two records.
C1_Witness ==
    \E s \in Requests :
        /\ AllocReturned(s)
        /\ Cardinality(RecordsBetween(req[s].period[1], req[s].period[2])) >= 2
        /\ \E e, u \in req[s].results : e.team_id \in TeamIds /\ u.team_id = NoTeam

\* The one record of the matching specification, and the team its run
\* returned it under.
TheRecord == CHOOSE r \in cost_records : TRUE

MatchReturned == req["r1"].pc \in {"returned", "committed"}

AttributedTeam == (CHOOSE e \in req["r1"].results : TRUE).team_id

\* The active rules whose predicate holds of the record.
MatchingRules(record, rules) ==
    {r \in rules : r.is_active /\ RuleMatches(record, r) = "true"}

\* C2: when several active rules match a record, the run attributes it to
\* the team of a matching rule of the lowest priority value, whatever order
\* the database returned the rows in.
C2_LowestPriorityDecides ==
    MatchReturned =>
        LET matching == MatchingRules(TheRecord, allocation_rules)
        IN  matching # {} =>
                \E r \in matching :
                    /\ r.team_id = AttributedTeam
                    /\ \A q \in matching : r.priority <= q.priority

\* Two rules of different priority and different teams matched the record.
C2_Witness ==
    /\ MatchReturned
    /\ \E r, q \in MatchingRules(TheRecord, allocation_rules) :
          r.priority < q.priority /\ r.team_id # q.team_id

\* The teams the member table maps the record's user to.
MemberTeams(record) ==
    IF record.user_email # <<>>
    THEN {m.team_id : m \in {x \in team_members : Lower(x.email) = Lower(record.user_email)}}
    ELSE {}

\* The teams whose tag_patterns match the record's tags.
TagTeams(record) ==
    IF DOMAIN record.tags # {}
    THEN {t \in TeamIds : /\ teams[t].tag_patterns # <<>>
                          /\ TagsMatch(record.tags, teams[t].tag_patterns, 1) = "true"}
    ELSE {}

\* C3: attribution is first-match in the order rule, member email, tag
\* patterns, Unallocated: a record some active rule matches goes to a
\* matching rule's team; otherwise a record whose user is a team member goes
\* to that member's team; otherwise a record with tags goes to a team whose
\* patterns match; otherwise it goes to no team.  Inactive rules never count.
C3_FirstMatchOrder ==
    MatchReturned =>
        LET by_rule == {r.team_id : r \in MatchingRules(TheRecord, allocation_rules)}
            by_email == MemberTeams(TheRecord)
            by_tags == TagTeams(TheRecord)
        IN  IF by_rule # {} THEN AttributedTeam \in by_rule
            ELSE IF by_email # {} THEN AttributedTeam \in by_email
            ELSE IF by_tags # {} THEN AttributedTeam \in by_tags
            ELSE AttributedTeam = NoTeam

\* A rule, the member table and the tag patterns all match the record, for
\* different teams, and the rule's team got it, with an inactive rule for
\* the other team matching too.
C3_Witness ==
    /\ MatchReturned
    /\ MatchingRules(TheRecord, allocation_rules) # {}
    /\ MemberTeams(TheRecord) # {}
    /\ TagTeams(TheRecord) # {}
    /\ AttributedTeam \notin MemberTeams(TheRecord)
    /\ \E r \in allocation_rules :
          /\ ~r.is_active
          /\ RuleMatches(TheRecord, r) = "true"
          /\ r.team_id # AttributedTeam

\* The team ids among a set of summaries or rows.
TeamsIn(S) == {e.team_id : e \in S}

\* C4, as claimed: a committed allocation run has persisted one
\* CostAllocation row per team it attributed records to, and one more, with
\* no team, whenever it returned an Unallocated summary.
C4_Original ==
    \A s \in Requests :
        (req[s].kind = "alloc" /\ req[s].pc = "committed") =>
            /\ TeamsIn(RowsOf(s)) = TeamsIn(req[s].results)
            /\ Cardinality(RowsOf(s)) = Cardinality(req[s].results)

\* C4, amended: a committed allocation run has persisted exactly one
\* CostAllocation row for each team it attributed at least one record of the
\* window to, carrying that team's totals and the run's period, and no row
\* for the Unallocated bucket, which exists only in the returned summaries.
C4_RowPerTeam ==
    \A s \in Requests :
        (req[s].kind = "alloc" /\ req[s].pc = "committed") =>
            /\ TeamsIn(RowsOf(s)) = TeamsIn(req[s].results) \ {NoTeam}
            /\ Cardinality(RowsOf(s)) = Cardinality(TeamsIn(RowsOf(s)))
            /\ \A row \in RowsOf(s) :
                  /\ row.breakdown.record_count >= 1
                  /\ <<row.period_start, row.period_end>> = req[s].period
                  /\ \E e \in req[s].results :
                        /\ e.team_id = row.team_id
                        /\ e.total_cost = row.total_cost
                        /\ e.record_count = row.breakdown.record_count

\* A run committed rows and had returned an Unallocated summary as well.
C4_Witness ==
    \E s \in Requests :
        /\ req[s].kind = "alloc"
        /\ req[s].pc = "committed"
        /\ RowsOf(s) # {}
        /\ NoTeam \in TeamsIn(req[s].results)

\* C5: a run's rows are committed together or not at all: the table holds
\* either none of a request's rows or all the rows its session added, and
\* none while the request is raising or has failed, at whichever call
\* (query, matching, flush, commit) it failed.
C5_AllOrNothing ==
    \A s \in Requests :
        /\ req[s].pc \in {"idle", "returned", "raised", "failed"} => RowsOf(s) = {}
        /\ RowsOf(s) # {} => RowsOf(s) = req[s].new_allocations

\* A request is raising with several rows assembled in its session while the
\* other request's rows are committed.
C5_Witness ==
    \E s, t \in Requests :
        /\ req[s].pc = "raised"
        /\ Cardinality(req[s].new_allocations) >= 2
        /\ RowsOf(t) # {}

\* C8: the window is half-open.  A returned run fetched exactly the records
\* with period_start <= timestamp < period_end; if there is none it returned
\* an empty list and added no row; and of two returned runs over [a, b) and
\* [b, c), exactly one fetched each record with timestamp in [a, c).
C8_HalfOpenWindow ==
    \A s \in Requests :
        AllocReturned(s) =>
            /\ req[s].fetched = RecordsBetween(req[s].period[1], req[s].period[2])
            /\ req[s].fetched = {} => req[s].results = {} /\ req[s].new_allocations = {}
            /\ \A t \in Requests :
                  (AllocReturned(t) /\ req[s].period[2] = req[t].period[1]) =>
                      \A r \in RecordsBetween(req[s].period[1], req[t].period[2]) :
                          (r \in req[s].fetched) # (r \in req[t].fetched)

\* Two runs over [a, b) and [b, c) returned, with a record stamped exactly b
\* and one stamped before it.
C8_Witness ==
    \E s, t \in Requests :
        /\ AllocReturned(s)
        /\ AllocReturned(t)
        /\ req[s].period[2] = req[t].period[1]
        /\ \E r, q \in cost_records :
              /\ r.usage_date = req[t].period[1]
              /\ q.usage_date < req[t].period[1]
              /\ q \in req[s].fetched

\* C9: allocation runs for one period exclude nothing.  When two runs for
\* the same period have both returned, their transactions open side by
\* side, each can commit whatever the other has done, and when both have
\* committed the table holds both full sets of rows, one row of each run
\* per team.
C9_NoMutualExclusion ==
    \A s \in Requests :
        \A t \in Requests \ {s} :
            (AllocReturned(s) /\ AllocReturned(t) /\ req[s].period = req[t].period) =>
                /\ req[s].pc = "returned" => ENABLED Commit(s)
                /\ (req[s].pc = "committed" /\ req[t].pc = "committed") =>
                      /\ RowsOf(s) = req[s].new_allocations
                      /\ \A row \in req[s].new_allocations :
                            [row EXCEPT !.run = t] \in RowsOf(t)

\* Both requests committed a non-empty run for the same period.
C9_Witness ==
    \E s, t \in Requests :
        /\ s # t
        /\ req[s].kind = "alloc" /\ req[s].pc = "committed"
        /\ req[t].kind = "alloc" /\ req[t].pc = "committed"
        /\ req[s].period = req[t].period
        /\ RowsOf(s) # {}
        /\ RowsOf(t) # {}

\* C10: the output tables are append-only: no step of an allocation or a
\* forecast request removes or changes a committed CostAllocation or
\* CostForecast row, so the rows of every earlier run stay as written.
C10_AppendOnly ==
    [][/\ cost_allocations \subseteq cost_allocations'
       /\ cost_forecasts \subseteq cost_forecasts']_vars

\* Two forecast runs committed rows for the same forecast date, and two
\* allocation runs rows for the same period.
C10_Witness ==
    \/ \E a, b \in cost_forecasts : a.forecast_date = b.forecast_date /\ a.run # b.run
    \/ \E a, b \in cost_allocations : a.period_start = b.period_start /\ a.run # b.run

\* The outcomes _match_record_to_team can have for the record over a rule
\* table and a team table: a team id, NoTeam or Raised, for every order the
\* queries may return their rows in.
Outcomes(rule_table, team_table) ==
    {MatchRecordToTeam(TheRecord, rules, email_to_team, team_order, team_table) :
        rules \in ActiveRulesByPriority(rule_table),
        email_to_team \in EmailMaps(team_members),
        team_order \in TeamOrders}

IsValid(p) == p.valid

ItemIsValid(item) == item[2].valid

\* The rule table with every pattern that does not compile taken out of the
\* cluster_match rules.
WithoutBadRulePatterns(rule_table) ==
    {IF r.rule_type = "cluster_match"
     THEN [r EXCEPT !.conditions.cluster_name_patterns = SelectSeq(@, IsValid)]
     ELSE r : r \in rule_table}

\* The team table with every tag pattern that does not compile taken out.
WithoutBadTagPatterns(team_table) ==
    [t \in DOMAIN team_table |->
        [team_table[t] EXCEPT !.tag_patterns = SelectSeq(@, ItemIsValid)]]

\* C6, as claimed: a pattern that does not compile is skipped by itself: no
\* allocation run aborts, and a run attributes the record as the remaining
\* rules, patterns and fallbacks would with the bad patterns absent.
C6_BadPatternSkipped ==
    req["r1"].kind = "alloc" =>
        /\ req["r1"].pc \notin {"raised", "failed"}
        /\ MatchReturned =>
              AttributedTeam \in Outcomes(WithoutBadRulePatterns(allocation_rules),
                                          WithoutBadTagPatterns(teams))

\* The rule kinds _rule_matches has a branch for.
KnownKinds == {"tag_match", "user_match", "workspace_match", "cluster_match", "sku_match"}

UnknownRules == {r \in allocation_rules : r.is_active /\ r.rule_type \notin KnownKinds}

\* The keys of a summary of the returned list.
SummaryKeys == {"team_id", "team_name", "total_cost", "dbu_cost", "record_count"}

\* C7, as claimed: an active rule of an unknown kind matches nothing and
\* does not abort the run, and the result of the run carries a warning for
\* the skipped rule.
C7_Original ==
    (MatchReturned /\ UnknownRules # {}) =>
        /\ AttributedTeam \in Outcomes(allocation_rules \ UnknownRules, teams)
        /\ \E e \in req["r1"].results : "warning" \in DOMAIN e

\* C7, amended: an active rule of an unknown kind matches no record and does
\* not abort the run: the run attributes the record, or aborts, exactly as
\* it can with that rule absent; the rule is ignored silently, the result
\* being the plain list of summaries with no warning in it.
C7_UnknownKindIgnored ==
    UnknownRules # {} =>
        /\ MatchReturned =>
              /\ AttributedTeam \in Outcomes(allocation_rules \ UnknownRules, teams)
              /\ \A e \in req["r1"].results : DOMAIN e = SummaryKeys
        /\ req["r1"].pc \in {"raised", "failed"} =>
              Raised \in Outcomes(allocation_rules \ UnknownRules, teams)

\* A run returned with an active rule of unknown kind of the best priority
\* in the table, the record attributed by another rule to another team.
C7_Witness ==
    /\ MatchReturned
    /\ \E u \in UnknownRules, r \in MatchingRules(TheRecord, allocation_rules) :
          /\ u.priority < r.priority
          /\ r.team_id = AttributedTeam
          /\ u.team_id # AttributedTeam

\* --------------------------------------------------- claims on the detector

\* The detector run of request r1 returned.
Detected ==
    /\ req["r1"].kind = "anomaly"
    /\ req["r1"].pc \in {"returned", "committed"}

\* The dimensions of the store: the total, each workspace and each SKU.
Dimensions ==
    {<<"daily_total">>}
    \cup {<<"workspace", r.workspace_id>> : r \in cost_records}
    \cup {<<"sku", r.sku_name>> : r \in cost_records}

\* The records that count toward a dimension.
RecordsOf(dimension) ==
    {r \in cost_records :
        \/ dimension = <<"daily_total">>
        \/ dimension = <<"workspace", r.workspace_id>>
        \/ dimension = <<"sku", r.sku_name>>}

\* The days of a dimension's series and its cost on each.
DaysOf(dimension) == Ascending({r.usage_date : r \in RecordsOf(dimension)})

ValuesOf(dimension) ==
    LET days == DaysOf(dimension)
    IN  [i \in 1..Len(days) |->
            SumOfCosts({r \in RecordsOf(dimension) : r.usage_date = days[i]})]

\* The anomalies the run returned for a dimension, and for one of its days.
AnomaliesOf(dimension) ==
    SelectSeq(req["r1"].results, LAMBDA a : a.dimension = dimension)

AnomaliesOn(dimension, day) ==
    SelectSeq(req["r1"].results, LAMBDA a : a.dimension = dimension /\ a.date = day)

\* The indexes the detector evaluates in a series of n buckets, and the
\* values of the trailing window of index i.
EvaluatedIn(n) == IF n < 7 THEN {} ELSE {i \in 1..n : i > 7 \/ i = n}

TrailingOf(values, i) == SubSeq(values, IF i > 7 THEN i - 7 ELSE 1, i - 1)

\* n * (value - mean) and n^2 * variance of the trailing window of index i.
Deviation(values, i) ==
    LET w == TrailingOf(values, i)
    IN  Len(w) * values[i] - SumTo(w, 1, Len(w))

Spread(values, i) ==
    LET w == TrailingOf(values, i)
        sum == SumTo(w, 1, Len(w))
    IN  Len(w) * SumTo([k \in 1..Len(w) |-> w[k] * w[k]], 1, Len(w)) - sum * sum

\* |z| > t, for z the z-score of index i and t = <<p, q>> the fraction p/q.
ZAbove(values, i, t) ==
    Deviation(values, i) * Deviation(values, i) * t[2] * t[2]
        > t[1] * t[1] * Spread(values, i)

OutlierLast(dimension) ==
    LET values == ValuesOf(dimension)
    IN  /\ Len(values) = 8
        /\ Spread(values, 8) > 0
        /\ ZAbove(values, 8, <<3, 1>>)

\* The one anomaly the claim expects for such a series.
OneCriticalAtLast(dimension) ==
    LET values == ValuesOf(dimension)
        found == AnomaliesOf(dimension)
    IN  /\ Len(found) = 1
        /\ found[1].date = DaysOf(dimension)[8]
        /\ found[1].value = values[8]
        /\ found[1].severity = "critical"
        /\ found[1].direction = IF Deviation(values, 8) > 0 THEN "spike" ELSE "drop"

\* C12, as claimed: whatever the sensitivity, a series of 8 buckets whose
\* last value lies more than 3 trailing standard deviations above (below)
\* the mean of the first 7 yields exactly one anomaly, at the last index,
\* critical and a spike (a drop).
C12_Original ==
    Detected =>
        \A dimension \in Dimensions :
            OutlierLast(dimension) => OneCriticalAtLast(dimension)

\* C12, amended: the same for a run whose sensitivity is at most 3, such as
\* the default 2.0.
C12_OutlierIsCritical ==
    (Detected /\ req["r1"].period[1] <= 3 * req["r1"].period[2]) =>
        \A dimension \in Dimensions :
            OutlierLast(dimension) => OneCriticalAtLast(dimension)

\* A run at the default sensitivity over a store where one 8-bucket series
\* ends in a spike and another in a drop, both beyond 3 standard deviations.
C12_Witness ==
    /\ Detected
    /\ req["r1"].period = DefaultSensitivity
    /\ \E up, down \in Dimensions :
          /\ OutlierLast(up) /\ Deviation(ValuesOf(up), 8) > 0
          /\ OutlierLast(down) /\ Deviation(ValuesOf(down), 8) < 0

\* C13: at every evaluated index whose trailing window varies, an anomaly
\* is emitted iff |z| > sensitivity, strictly, and then exactly one, with
\* direction spike iff z > 0 and severity critical for |z| > 3, high for
\* 2.5 < |z| <= 3 and medium otherwise.
C13_ThresholdsStrict ==
    Detected =>
        \A dimension \in Dimensions :
            LET values == ValuesOf(dimension)
                days == DaysOf(dimension)
            IN  \A i \in EvaluatedIn(Len(values)) :
                    Spread(values, i) # 0 =>
                        LET found == AnomaliesOn(dimension, days[i])
                        IN  IF ZAbove(values, i, req["r1"].period)
                            THEN /\ Len(found) = 1
                                 /\ found[1].direction =
                                       IF Deviation(values, i) > 0 THEN "spike" ELSE "drop"
                                 /\ found[1].severity =
                                       IF ZAbove(values, i, <<3, 1>>) THEN "critical"
                                       ELSE IF ZAbove(values, i, <<5, 2>>) THEN "high"
                                       ELSE "medium"
                            ELSE found = <<>>

\* A run at the default sensitivity over a series with an index at exactly
\* z = 2 (no anomaly) and one at exactly z = 3 (an anomaly, high).
C13_Witness ==
    /\ Detected
    /\ req["r1"].period = DefaultSensitivity
    /\ \E dimension \in Dimensions :
          LET values == ValuesOf(dimension)
          IN  \E i, j \in EvaluatedIn(Len(values)) :
                 /\ Spread(values, i) # 0
                 /\ Deviation(values, i) * Deviation(values, i) = 4 * Spread(values, i)
                 /\ Spread(values, j) # 0
                 /\ Deviation(values, j) * Deviation(values, j) = 9 * Spread(values, j)
                 /\ Len(AnomaliesOn(dimension, DaysOf(dimension)[j])) = 1

\* C14: a series of fewer than 7 buckets yields no anomaly and no error, and
\* changes nothing for the others: the anomalies returned for every
\* dimension are those of its own series, none if it has fewer than 7
\* buckets, and the list is made of these and nothing else.
C14_ShortSeriesSkipped ==
    Detected =>
        /\ \A dimension \in Dimensions :
              LET values == ValuesOf(dimension)
              IN  AnomaliesOf(dimension) =
                     IF Len(values) < 7 THEN <<>>
                     ELSE FindZscoreAnomalies(values, DaysOf(dimension), dimension,
                                              req["r1"].period)
        /\ \A k \in DOMAIN req["r1"].results :
              req["r1"].results[k].dimension \in Dimensions

\* Workspace w1 has fewer than 7 buckets, and the run returned anomalies for
\* the total and for workspace w2, which comes after w1.
C14_Witness ==
    /\ Detected
    /\ Len(ValuesOf(<<"workspace", "w1">>)) \in 1..6
    /\ AnomaliesOf(<<"workspace", "w2">>) # <<>>
    /\ AnomaliesOf(<<"daily_total">>) # <<>>


\* ------------------------------------------------- claims on the forecaster

\* Request s ran generate_forecast past its history query.
ForecastRun(s) == req[s].kind = "forecast" /\ DOMAIN req[s].args # {}

\* Request s ran generate_forecast to its return.
ForecastReturned(s) == ForecastRun(s) /\ req[s].pc \in {"returned", "committed"}

\* The history the run of s read.
HistoryOf(s) ==
    GetHistoricalCosts(cost_records, req[s].args.workspace_id, req[s].args.granularity)

\* The committed CostForecast rows of the run of s.
ForecastRowsOf(s) == {row \in cost_forecasts : row.run = s}

\* C15: a forecast run that reads fewer than 14 historical buckets does not
\* raise: it returns the empty list, has called neither the primary nor the
\* linear model, has added no CostForecast row to its session, and no row of
\* it is ever in the table.
C15_ShortHistoryEmpty ==
    \A s \in Requests :
        (ForecastRun(s) /\ Len(HistoryOf(s)) < MinHistory)
            => /\ req[s].pc \in {"returned", "committed"}
               /\ req[s].forecasts = <<>>
               /\ req[s].tried = {}
               /\ req[s].new_forecasts = {}
               /\ ForecastRowsOf(s) = {}

\* A committed forecast run over a history of 13 buckets, one short.
C15_Witness ==
    \E s \in Requests :
        /\ ForecastRun(s)
        /\ req[s].pc = "committed"
        /\ Len(HistoryOf(s)) = MinHistory - 1
        /\ req[s].forecasts = <<>>

\* C16: when the primary model fails, generate_forecast raises nothing for
\* it: the run returns the linear forecast of the same history and horizon,
\* every point and every row of the run is tagged linear with
\* slope/intercept/std_dev metrics, and a run's points all come from one
\* model.  The only exception after the models ran is that of the flush,
\* with the rows already added.
C16_FallbackToLinear ==
    \A s \in Requests :
        ForecastRun(s) =>
            LET horizon_days == req[s].args.horizon_days
                returned == req[s].pc \in {"returned", "committed"}
                forecasts == req[s].forecasts
            IN  /\ "linear" \in req[s].tried =>
                    /\ req[s].tried = {"prophet", "linear"}
                    /\ req[s].pc \in {"raised", "returned"} =>
                          /\ Cardinality(req[s].new_forecasts) = horizon_days
                          /\ \A row \in req[s].new_forecasts :
                                /\ row.model_type = "linear"
                                /\ DOMAIN row.model_metrics =
                                      {"slope", "intercept", "std_dev"}
                    /\ returned =>
                          /\ forecasts = LinearForecast(HistoryOf(s), horizon_days)
                          /\ Len(forecasts) = horizon_days
                          /\ \A i \in 1..Len(forecasts) :
                                /\ forecasts[i].model = "linear"
                                /\ DOMAIN forecasts[i].metrics =
                                      {"slope", "intercept", "std_dev"}
                /\ (req[s].tried = {"prophet"} /\ returned) =>
                    /\ Len(forecasts) = horizon_days
                    /\ \A i \in 1..Len(forecasts) : forecasts[i].model = "prophet"
                /\ req[s].pc = "raised" => req[s].new_forecasts # {}
                /\ \A row \in ForecastRowsOf(s) :
                      row.model_type = "linear" <=> "linear" \in req[s].tried

\* A committed run whose primary model raised: its rows in the table are
\* the linear ones.
C16_Witness ==
    \E s \in Requests :
        /\ ForecastRun(s)
        /\ req[s].pc = "committed"
        /\ req[s].tried = {"prophet", "linear"}
        /\ Cardinality(ForecastRowsOf(s)) = MaxHorizon
        /\ \A row \in ForecastRowsOf(s) : row.model_type = "linear"

\* Request s returned the points of the linear model.
LinearReturned(s) == ForecastReturned(s) /\ "linear" \in req[s].tried

\* C17: the linear forecast has exactly horizon_days points, all tagged
\* linear, point i dated i days after the last historical date (so in
\* increasing order), and every point has
\* 0 <= lower_bound <= predicted_cost <= upper_bound.
C17_LinearBounds ==
    \A s \in Requests :
        LinearReturned(s) =>
            LET forecasts == req[s].forecasts
                historical == HistoryOf(s)
                last_date == historical[Len(historical)].date
            IN  /\ Len(forecasts) = req[s].args.horizon_days
                /\ \A i \in 1..Len(forecasts) :
                      /\ 0 <= forecasts[i].lower_bound
                      /\ forecasts[i].lower_bound <= forecasts[i].predicted_cost
                      /\ forecasts[i].predicted_cost <= forecasts[i].upper_bound
                      /\ forecasts[i].date = last_date + i
                      /\ forecasts[i].model = "linear"
                /\ \A i, j \in 1..Len(forecasts) :
                      i < j => forecasts[i].date < forecasts[j].date

\* A linear forecast of a noisy history: the margin is larger than the
\* prediction, the lower bound is clamped to 0 and the upper is not.
C17_Witness ==
    \E s \in Requests :
        /\ LinearReturned(s)
        /\ Len(req[s].forecasts) = MaxHorizon
        /\ \E i \in 1..Len(req[s].forecasts) :
              LET f == req[s].forecasts[i]
              IN  /\ f.lower_bound = 0
                  /\ f.predicted_cost > 0
                  /\ f.upper_bound > 2 * f.predicted_cost

\* The costs of the history the run of s read.
CostsOf(s) == [i \in 1..Len(HistoryOf(s)) |-> HistoryOf(s)[i].cost]

\* n * den times the residual of bucket i (1-based, x = i - 1) against the
\* line of slope num / den and intercept inum / (n * den).
ScaledResidual(costs, fit, i) ==
    fit.n * fit.den * costs[i] - (fit.n * fit.num * (i - 1) + fit.inum)

\* The line is the least-squares one: its residuals sum to zero and are
\* orthogonal to x (the normal equations).
IsLeastSquares(costs, fit) ==
    LET n == Len(costs)
    IN  /\ fit.n = n
        /\ fit.den > 0
        /\ SumTo([i \in 1..n |-> ScaledResidual(costs, fit, i)], 1, n) = 0
        /\ SumTo([i \in 1..n |-> (i - 1) * ScaledResidual(costs, fit, i)], 1, n) = 0

\* costs[i] = a + b * (i - 1) for every bucket.
IsLine(costs, a, b) == \A i \in 1..Len(costs) : costs[i] = a + b * (i - 1)

\* C18: point i of the linear forecast of n buckets is
\* max(0, slope * (n + i - 1) + intercept) for the least-squares line of
\* the history.  So a history that is exactly a line is continued by the
\* forecast (clamped at 0): strictly increasing and positive for a rising
\* line, and equal to the constant (so within 100 of it) for a flat one.
C18_LeastSquaresLine ==
    \A s \in Requests :
        LinearReturned(s) =>
            LET costs == CostsOf(s)
                n == Len(costs)
                fit == PolyFit(costs)
                forecasts == req[s].forecasts
                a == costs[1]
                b == costs[2] - costs[1]
            IN  /\ IsLeastSquares(costs, fit)
                /\ \A i \in 1..Len(forecasts) :
                      forecasts[i].predicted_cost = Max(0, PolyVal(fit, n + i - 1))
                /\ IsLine(costs, a, b) =>
                      /\ \A i \in 1..Len(forecasts) :
                            forecasts[i].predicted_cost = Max(0, a + b * (n + i - 1))
                      /\ (a > 0 /\ b > 0) =>
                            /\ \A i \in 1..Len(forecasts) :
                                  forecasts[i].predicted_cost > costs[n]
                            /\ \A i, j \in 1..Len(forecasts) :
                                  i < j => forecasts[i].predicted_cost
                                              < forecasts[j].predicted_cost
                      /\ b = 0 =>
                            \A i \in 1..Len(forecasts) :
                                /\ forecasts[i].predicted_cost - a < 100
                                /\ a - forecasts[i].predicted_cost < 100

\* The linear forecast of the history 1000 + 10 * i of 14 buckets, for two
\* days: 1140 and 1150.
C18_Witness ==
    \E s \in Requests :
        /\ LinearReturned(s)
        /\ IsLine(CostsOf(s), 1000, 10)
        /\ Len(req[s].forecasts) = 2
        /\ req[s].forecasts[1].predicted_cost = 1140
        /\ req[s].forecasts[2].predicted_cost = 1150

\* C19: every point of the primary path has predicted_cost, lower_bound and
\* upper_bound at least 0 whatever the fitted model outputs, and so
\* lower_bound <= upper_bound.
C19_PrimaryClamped ==
    \A s \in Requests :
        (ForecastReturned(s) /\ req[s].tried = {"prophet"}) =>
            \A i \in 1..Len(req[s].forecasts) :
                LET f == req[s].forecasts[i]
                IN  /\ f.predicted_cost >= 0
                    /\ f.lower_bound >= 0
                    /\ f.upper_bound >= 0
                    /\ f.lower_bound <= f.upper_bound


\* Row f was created after row g: the run r0 committed before r1 began.
CreatedAfter(f, g) == f.run = "r1" /\ g.run = "r0"

\* The rows a reader that takes the most recently created row of each
\* forecast date would use.
NewestPerDate(rows) == {f \in rows : ~ \E g \in rows :
                                        /\ g.forecast_date = f.forecast_date
                                        /\ CreatedAfter(g, f)}

\* C20: a summary that finds forecasts holds each forecast date at most
\* once, its rows are the most recently created ones of their dates in the
\* table it read, and total_predicted_cost is the sum of one predicted cost
\* per date.
C20_NewestRowPerDate ==
    [][\A s \in Requests :
          (/\ req[s].pc = "idle"
           /\ req'[s].kind = "summary"
           /\ req'[s].pc = "returned"
           /\ req'[s].results.status = "ok") =>
              LET data == req'[s].results.data
              IN  /\ \A i, j \in 1..Len(data) : data[i].date = data[j].date => i = j
                  /\ req'[s].fetched \subseteq NewestPerDate(cost_forecasts)
                  /\ req'[s].results.total_predicted_cost =
                        SumTo([i \in 1..Len(data) |-> data[i].predicted], 1, Len(data))]_vars

\* ------------------------------------------ further claims on the matching

\* C26: the tag step attributes the record to a team only if the record has
\* tags and carries a key of that team's tag_patterns whose regex matches
\* the record's value for that key.
C26_TagKeyCarried ==
    (/\ MatchReturned
     /\ MatchingRules(TheRecord, allocation_rules) = {}
     /\ MemberTeams(TheRecord) = {}
     /\ AttributedTeam # NoTeam) =>
        LET patterns == teams[AttributedTeam].tag_patterns
        IN  /\ DOMAIN TheRecord.tags # {}
            /\ \E i \in 1..Len(patterns) :
                  /\ patterns[i][1] \in DOMAIN TheRecord.tags
                  /\ patterns[i][2].valid
                  /\ SearchFinds(patterns[i][2], TheRecord.tags[patterns[i][1]])

\* str.upper() on one character.
UpperChar(c) ==
    CASE c = "a" -> "A"
      [] c = "b" -> "B"
      [] OTHER -> c

\* The string in capitals when up, in small letters when not.
Recase(s, up) == [i \in 1..Len(s) |-> IF up THEN UpperChar(s[i]) ELSE LowerChar(s[i])]

RecaseRecord(record, up) == [record EXCEPT !.user_email = Recase(@, up)]

RecaseRules(rule_table, up) ==
    {IF r.rule_type = "user_match"
     THEN [r EXCEPT !.conditions.emails = {Recase(e, up) : e \in @}]
     ELSE r : r \in rule_table}

RecaseMembers(members, up) == {[m EXCEPT !.email = Recase(@, up)] : m \in members}

\* The outcomes _match_record_to_team can have for a record over the tables
\* given, for every order the queries may return their rows in.
OutcomesFor(record, rule_table, members) ==
    {MatchRecordToTeam(record, rules, email_to_team, team_order, teams) :
        rules \in ActiveRulesByPriority(rule_table),
        email_to_team \in EmailMaps(members),
        team_order \in TeamOrders}

\* C28: the team a record is attributed to does not depend on the letter
\* case of the record's user_email, of the emails of the user_match rules or
\* of the member emails: with any of them put in capitals or in small
\* letters the run can attribute the record to exactly the same teams, the
\* one it did attribute it to among them.
C28_EmailCaseInsensitive ==
    MatchReturned =>
        \A up_record, up_rules, up_members \in BOOLEAN :
            LET recased == OutcomesFor(RecaseRecord(TheRecord, up_record),
                                       RecaseRules(allocation_rules, up_rules),
                                       RecaseMembers(team_members, up_members))
            IN  /\ AttributedTeam \in recased
                /\ recased = OutcomesFor(TheRecord, allocation_rules, team_members)

\* The record of user "a" was attributed through an email stored as "A":
\* that of the only rule, a user_match one, or with no rule that of the only
\* member.
C28_Witness ==
    /\ MatchReturned
    /\ TheRecord.user_email = <<"a">>
    /\ AttributedTeam = "t2"
    /\ \/ allocation_rules = {RuleById(2)}
       \/ /\ allocation_rules = {}
          /\ team_members = {[email |-> <<"A">>, team_id |-> "t2"]}

\* ------------------------------------------- further claims on the detector

\* C27: in a series of n buckets with window = min(7, n - 1), every anomaly
\* is at an index i >= window (0-based), and its mean and deviation are
\* those of exactly the window values before i: the value at i is not part
\* of its baseline and no older value counts.  An evaluated index is
\* reported exactly when that window has a non-zero variance and its
\* z-score exceeds the sensitivity.
C27_TrailingWindow ==
    Detected =>
        \A dimension \in Dimensions :
            LET values == ValuesOf(dimension)
                days == DaysOf(dimension)
                n == Len(values)
                found == AnomaliesOf(dimension)
            IN  /\ \A k \in 1..Len(found) :
                      \E i \in EvaluatedIn(n) :
                          LET trailing == SubSeq(values, i - Min(7, n - 1), i - 1)
                          IN  /\ i - 1 >= Min(7, n - 1)
                              /\ found[k].date = days[i]
                              /\ found[k].value = values[i]
                              /\ Len(trailing) = Min(7, n - 1)
                              /\ found[k].expected =
                                    <<SumTo(trailing, 1, Len(trailing)), Len(trailing)>>
                              /\ found[k].z_score =
                                    [num |-> Deviation(values, i),
                                     spread |-> Spread(values, i)]
                /\ \A i \in 1..n :
                      Len(AnomaliesOn(dimension, days[i])) =
                          IF /\ i \in EvaluatedIn(n)
                             /\ Spread(values, i) # 0
                             /\ ZAbove(values, i, req["r1"].period)
                          THEN 1 ELSE 0

\* An anomaly at the ninth bucket of a series: its baseline is buckets 2 to
\* 8, whose sum differs from that of the first seven.
C27_Witness ==
    /\ Detected
    /\ \E dimension \in Dimensions :
          LET values == ValuesOf(dimension)
              found == AnomaliesOn(dimension, DaysOf(dimension)[9])
          IN  /\ Len(values) = 9
              /\ found # <<>>
              /\ found[1].expected[1] = SumTo(values, 2, 8)
              /\ SumTo(values, 2, 8) # SumTo(values, 1, 7)
              /\ values[9] # values[8]

\* ------------------------------------------ further claims on the allocation

\* The records of the run of s that _match_record_to_team gives to team t.
AttributedTo(s, t) ==
    {r \in req[s].fetched : t \in OutcomesFor(r, allocation_rules, team_members)}

\* The sum of the values of a dict.
RECURSIVE SumValues(_)
SumValues(d) ==
    IF DOMAIN d = {} THEN 0
    ELSE LET k == CHOOSE k \in DOMAIN d : TRUE
         IN  d[k] + SumValues([x \in DOMAIN d \ {k} |-> d[x]])

\* The sum of dbu_count * dbu_rate over a set of records.
RECURSIVE SumUnits(_)
SumUnits(S) ==
    IF S = {} THEN 0
    ELSE LET r == CHOOSE r \in S : TRUE
         IN  r.dbu_count * r.dbu_rate + SumUnits(S \ {r})

\* C30: every CostAllocation row of an allocation run, in its session or
\* committed, is consistent with the records attributed to its team: the
\* values of by_sku and those of by_workspace each add up to total_cost,
\* each being the cost of the team's records of that SKU or workspace,
\* record_count is the number of those records, and dbu_cost is the sum of
\* dbu_count * dbu_rate over them, whatever their cost_usd.
C30_RowConsistent ==
    \A s \in Requests :
        AllocReturned(s) =>
            \A row \in req[s].new_allocations \cup RowsOf(s) :
                LET recs == AttributedTo(s, row.team_id)
                    by_sku == row.breakdown.by_sku
                    by_workspace == row.breakdown.by_workspace
                IN  /\ SumValues(by_sku) = row.total_cost
                    /\ SumValues(by_workspace) = row.total_cost
                    /\ row.total_cost = SumOfCosts(recs)
                    /\ DOMAIN by_sku = {r.sku_name : r \in recs}
                    /\ \A k \in DOMAIN by_sku :
                          by_sku[k] = SumOfCosts({r \in recs : r.sku_name = k})
                    /\ DOMAIN by_workspace = {r.workspace_id : r \in recs}
                    /\ \A k \in DOMAIN by_workspace :
                          by_workspace[k] = SumOfCosts({r \in recs : r.workspace_id = k})
                    /\ row.breakdown.record_count = Cardinality(recs)
                    /\ row.dbu_cost = SumUnits(recs)

\* A committed row over records of two SKUs whose dbu_cost differs from its
\* total_cost.
C30_Witness ==
    \E s \in Requests :
        /\ AllocReturned(s)
        /\ \E row \in RowsOf(s) :
              /\ Cardinality(DOMAIN row.breakdown.by_sku) = 2
              /\ row.dbu_cost # row.total_cost
              /\ row.breakdown.record_count = 2


\* ------------------------------------------------------------ DBU costing

\* A SKU name is the sequence of its pieces, "_PHOTON" a piece of its own, so
\* that f"{sku_name}_PHOTON" appends a piece and '"_PHOTON" in sku_name' asks
\* for one.  Rates are in hundredths of a dollar per DBU.
PhotonSuffix == "_PHOTON"

DBU_RATES ==
    (<<"STANDARD_JOBS_COMPUTE">> :> 15) @@ (<<"PREMIUM_JOBS_COMPUTE">> :> 30) @@
    (<<"JOBS_COMPUTE">> :> 15) @@ (<<"JOBS_COMPUTE", PhotonSuffix>> :> 30) @@
    (<<"STANDARD_ALL_PURPOSE_COMPUTE">> :> 40) @@
    (<<"PREMIUM_ALL_PURPOSE_COMPUTE">> :> 55) @@
    (<<"ALL_PURPOSE_COMPUTE">> :> 55) @@
    (<<"ALL_PURPOSE_COMPUTE", PhotonSuffix>> :> 110) @@
    (<<"STANDARD_SQL_COMPUTE">> :> 22) @@ (<<"PREMIUM_SQL_COMPUTE">> :> 22) @@
    (<<"SQL_COMPUTE">> :> 22) @@ (<<"SQL_COMPUTE_SERVERLESS">> :> 70) @@
    (<<"STANDARD_DLT_CORE_COMPUTE">> :> 20) @@
    (<<"PREMIUM_DLT_CORE_COMPUTE">> :> 20) @@
    (<<"STANDARD_DLT_PRO_COMPUTE">> :> 25) @@
    (<<"PREMIUM_DLT_PRO_COMPUTE">> :> 25) @@
    (<<"STANDARD_DLT_ADVANCED_COMPUTE">> :> 36) @@
    (<<"PREMIUM_DLT_ADVANCED_COMPUTE">> :> 36) @@
    (<<"MODEL_SERVING">> :> 7) @@ (<<"FOUNDATION_MODEL_SERVING">> :> 7) @@
    (<<"SERVERLESS_REAL_TIME_INFERENCE">> :> 7) @@
    (<<"SERVERLESS_SQL_COMPUTE">> :> 70)

\* self.rates.get(sku_name, 0.15): the rate of a SKU the table lacks.
DefaultRate == 15

\* CostCalculator.__init__: the defaults, overridden by the custom rates (an
\* empty dict, like None, leaves the defaults).
CalculatorRates(custom_rates) == custom_rates @@ DBU_RATES

\* '"_PHOTON" in sku_name'.
HasPhoton(sku_name) == \E i \in DOMAIN sku_name : sku_name[i] = PhotonSuffix

\* The photon variant is charged whether or not the table has it.
CalculateDbuCostAnyPhoton(rates, sku_name, dbu_count, photon_enabled) ==
    LET sku == IF photon_enabled /\ ~HasPhoton(sku_name)
               THEN Append(sku_name, PhotonSuffix) ELSE sku_name
        rate == IF sku \in DOMAIN rates THEN rates[sku] ELSE DefaultRate
    IN  rate * dbu_count

\* CostCalculator.calculate_dbu_cost.
CalculateDbuCost(rates, sku_name, dbu_count, photon_enabled) ==
    LET photon_sku == Append(sku_name, PhotonSuffix)
        sku == IF photon_enabled /\ ~HasPhoton(sku_name) /\ photon_sku \in DOMAIN rates
               THEN photon_sku ELSE sku_name
        rate == IF sku \in DOMAIN rates THEN rates[sku] ELSE DefaultRate
    IN  rate * dbu_count

\* The custom rate tables a calculator is built with: none, a new SKU, an
\* override of a default, and a photon variant of a SKU that has no rate.
CustomRatePool ==
    {<<>>,
     (<<"CUSTOM_SKU">> :> 50),
     (<<"JOBS_COMPUTE">> :> 20),
     (<<"X", PhotonSuffix>> :> 90)}

\* The SKUs a caller prices: with and without a photon variant, already a
\* photon SKU, "_PHOTON" inside the name, and names no table has.
SkuPool ==
    {<<"JOBS_COMPUTE">>, <<"JOBS_COMPUTE", PhotonSuffix>>,
     <<"ALL_PURPOSE_COMPUTE">>, <<"SQL_COMPUTE">>, <<"SQL_COMPUTE_SERVERLESS">>,
     <<"UNKNOWN_SKU">>, <<"CUSTOM_SKU">>, <<"X">>,
     <<"X", PhotonSuffix, "_V2">>}

DbuCounts == {0, 1, 100}

\* A caller builds a calculator and prices one usage line; nothing is stored.
PriceUsage(s) ==
    /\ req[s].pc \in {"idle", "priced"}
    /\ \E custom_rates \in CustomRatePool, sku_name \in SkuPool,
          dbu_count \in DbuCounts, photon_enabled \in BOOLEAN :
         req' = [req EXCEPT ![s] =
                   [IdleRequest EXCEPT
                      !.pc = "priced", !.kind = "dbu_cost",
                      !.args = [custom_rates |-> custom_rates,
                                sku_name |-> sku_name,
                                dbu_count |-> dbu_count,
                                photon_enabled |-> photon_enabled],
                      !.results = {CalculateDbuCost(CalculatorRates(custom_rates),
                                                    sku_name, dbu_count,
                                                    photon_enabled)}]]
    /\ UNCHANGED <<clusters, alerts, recommendations, alert_history, notifications,
                   sched, cost_records, allocation_rules, teams, team_members,
                   cost_allocations, cost_forecasts>>

InitCalc ==
    /\ cost_records = {}
    /\ allocation_rules = {}
    /\ teams = TeamsWith(<< <<>>, <<>> >>)
    /\ team_members = {}
    /\ InitTables

NextCalc == PriceUsage("r1")

SpecCalc == InitCalc /\ [][NextCalc]_vars

\* The calls that returned a price.
Priced == {s \in Requests : req[s].kind = "dbu_cost"}

\* The SKU the claim charges: the photon variant when photon is on, the name
\* has no "_PHOTON" and the variant has a rate; the name itself otherwise.
EffectiveSku(rates, a) ==
    IF /\ a.photon_enabled
       /\ \A i \in DOMAIN a.sku_name : a.sku_name[i] # PhotonSuffix
       /\ (a.sku_name \o <<PhotonSuffix>>) \in DOMAIN rates
    THEN a.sku_name \o <<PhotonSuffix>>
    ELSE a.sku_name

\* C23: calculate_dbu_cost returns units times the rate of the effective SKU
\* (the "_PHOTON" variant when photon is on, the name lacks "_PHOTON" and the
\* variant has a rate; the name otherwise); a SKU without a rate is charged
\* 0.15 and nothing is raised; JOBS_COMPUTE at 100 units costs 15.00 without
\* photon and 30.00 with it.
C23_DbuCost ==
    \A s \in Priced :
        LET a == req[s].args
            rates == CalculatorRates(a.custom_rates)
            eff == EffectiveSku(rates, a)
        IN  /\ req[s].results =
                 {a.dbu_count * (IF eff \in DOMAIN rates THEN rates[eff] ELSE 15)}
            /\ (a.custom_rates = <<>> /\ a.sku_name = <<"JOBS_COMPUTE">>
                /\ a.dbu_count = 100)
               => req[s].results = {IF a.photon_enabled THEN 3000 ELSE 1500}

\* Photon is on for SQL_COMPUTE, whose photon variant has no rate: 100 units
\* are charged at its own rate.
C23_Witness ==
    /\ "r1" \in Priced
    /\ req["r1"].args.photon_enabled
    /\ req["r1"].args.sku_name = <<"SQL_COMPUTE">>
    /\ req["r1"].args.dbu_count = 100
    /\ req["r1"].results = {2200}


\* --------------------------------------------------------- recommendations

\* A nullable column holds <<>> for NULL and <<v>> for the value v.
Null == <<>>

Some(v) == <<v>>

\* 'column or 0'.
OrZero(column) == IF column = Null THEN 0 ELSE column[1]

\* A row of the table clusters, with the columns the recommendation engines
\* read; the names the messages quote are left out.
Cluster(id, type, state, workers, amin, amax, auto_term, cpu, mem, idle_hours) ==
    [cluster_id |-> id, cluster_type |-> type, state |-> state,
     node_type |-> Null, num_workers |-> workers, photon_enabled |-> FALSE,
     autoscale_min |-> amin, autoscale_max |-> amax,
     auto_termination_minutes |-> auto_term,
     avg_cpu_utilization |-> cpu, avg_memory_utilization |-> mem,
     idle_time_hours |-> idle_hours, is_idle |-> idle_hours # Null]

\* VM_COSTS["AWS"], in thousandths of a dollar per hour.
VM_COSTS_AWS ==
    ("i3.xlarge" :> 312) @@ ("i3.2xlarge" :> 624) @@ ("i3.4xlarge" :> 1248) @@
    ("r5.xlarge" :> 252) @@ ("r5.2xlarge" :> 504) @@
    ("m5.xlarge" :> 192) @@ ("m5.2xlarge" :> 384)

\* RecommendationService._estimate_hourly_cost, in thousandths of a dollar:
\* each node is charged one DBU (two with photon) at the all-purpose rate and
\* the VM rate of its node type, 0.3 for a type the table lacks.
EstimateHourlyCost(cluster) ==
    LET nodes == cluster.num_workers + 1
        dbu_per_node == IF cluster.photon_enabled THEN 2 ELSE 1
        dbu_rate == 10 * DBU_RATES[<<"ALL_PURPOSE_COMPUTE">>]
        vm_rate == IF cluster.node_type # Null
                      /\ cluster.node_type[1] \in DOMAIN VM_COSTS_AWS
                   THEN VM_COSTS_AWS[cluster.node_type[1]] ELSE 300
    IN  nodes * dbu_per_node * dbu_rate + nodes * vm_rate

\* RecommendationService._detect_idle_clusters.
DetectIdleClusters(table) ==
    {LET idle_hours == OrZero(c.idle_time_hours)
         wasted_cost == EstimateHourlyCost(c) * idle_hours
     IN  [recommendation_type |-> "idle_cluster",
          severity |-> IF idle_hours > 2 THEN "high" ELSE "medium",
          resource_id |-> c.cluster_id,
          current_cost |-> Some(wasted_cost),
          estimated_savings |-> Some((wasted_cost * 8) \div 10),
          details |-> [action |-> "terminate", idle_hours |-> idle_hours,
                       num_workers |-> c.num_workers],
          status |-> "open"] :
     c \in {c \in table : c.state = "RUNNING" /\ c.is_idle}}

\* The under-utilised half of _detect_right_sizing_opportunities.
ResizeRec(c) ==
    LET cpu_util == OrZero(c.avg_cpu_utilization)
        mem_util == OrZero(c.avg_memory_utilization)
        suggested_workers == Max(1, c.num_workers \div 2)
        current_hourly == EstimateHourlyCost(c)
        estimated_hourly ==
            (current_hourly * (suggested_workers + 1)) \div (c.num_workers + 1)
        monthly_savings == (current_hourly - estimated_hourly) * 24 * 30
    IN  IF cpu_util < 30 /\ mem_util < 30 /\ c.num_workers > 1
        THEN {[recommendation_type |-> "right_sizing", severity |-> "medium",
               resource_id |-> c.cluster_id,
               current_cost |-> Some(current_hourly * 24 * 30),
               estimated_savings |-> Some(monthly_savings),
               details |-> [action |-> "resize",
                            current_workers |-> c.num_workers,
                            suggested_workers |-> suggested_workers],
               status |-> "open"]}
        ELSE {}

\* The over-provisioned-autoscale half of _detect_right_sizing_opportunities.
AutoscaleRec(c) ==
    IF /\ c.autoscale_min # Null
       /\ c.autoscale_max # Null
       /\ c.autoscale_max[1] > 10
       /\ OrZero(c.avg_cpu_utilization) < 40
    THEN {[recommendation_type |-> "right_sizing", severity |-> "low",
           resource_id |-> c.cluster_id,
           current_cost |-> Null, estimated_savings |-> Some(0),
           details |-> [action |-> "adjust_autoscale",
                        current_max |-> c.autoscale_max[1],
                        suggested_max |-> Max(c.autoscale_min[1],
                                               c.autoscale_max[1] \div 2)],
           status |-> "open"]}
    ELSE {}

\* RecommendationService._detect_right_sizing_opportunities.
DetectRightSizingOpportunities(table) ==
    UNION {ResizeRec(c) \cup AutoscaleRec(c) :
           c \in {c \in table : /\ c.state \in {"RUNNING", "TERMINATED"}
                                /\ c.avg_cpu_utilization # Null}}

\* Every timeout other than 0 is taken for a long one.
AutoTerminationRecNoLimit(c) ==
    LET auto_term == OrZero(c.auto_termination_minutes)
    IN  IF auto_term = 0
        THEN {[recommendation_type |-> "policy_enforcement", severity |-> "high",
               resource_id |-> c.cluster_id,
               current_cost |-> Null,
               estimated_savings |-> Some(EstimateHourlyCost(c) * 8),
               details |-> [action |-> "set_auto_termination",
                            suggested_timeout |-> 30],
               status |-> "open"]}
        ELSE {[recommendation_type |-> "policy_enforcement", severity |-> "low",
               resource_id |-> c.cluster_id,
               current_cost |-> Null, estimated_savings |-> Null,
               details |-> [action |-> "reduce_auto_termination",
                            current_timeout |-> auto_term,
                            suggested_timeout |-> 60],
               status |-> "open"]}

\* The loop body of _check_auto_termination.
AutoTerminationRec(c) ==
    LET auto_term == OrZero(c.auto_termination_minutes)
    IN  IF auto_term = 0
        THEN {[recommendation_type |-> "policy_enforcement", severity |-> "high",
               resource_id |-> c.cluster_id,
               current_cost |-> Null,
               estimated_savings |-> Some(EstimateHourlyCost(c) * 8),
               details |-> [action |-> "set_auto_termination",
                            suggested_timeout |-> 30],
               status |-> "open"]}
        ELSE IF auto_term > 120
        THEN {[recommendation_type |-> "policy_enforcement", severity |-> "low",
               resource_id |-> c.cluster_id,
               current_cost |-> Null, estimated_savings |-> Null,
               details |-> [action |-> "reduce_auto_termination",
                            current_timeout |-> auto_term,
                            suggested_timeout |-> 60],
               status |-> "open"]}
        ELSE {}

\* RecommendationService._check_auto_termination.
CheckAutoTermination(table) ==
    UNION {AutoTerminationRec(c) :
           c \in {c \in table : /\ c.cluster_type = "all-purpose"
                                /\ c.state \in {"RUNNING", "TERMINATED"}}}

\* The recommendations generate_all_recommendations builds from the table.
AllRecommendations(table) ==
    DetectIdleClusters(table) \cup DetectRightSizingOpportunities(table)
        \cup CheckAutoTermination(table)


\* POST /recommendations/generate: generate_all_recommendations inside get_db,
\* up to its return or its exception.
GenerateRecommendations(s) ==
    /\ req[s].pc = "idle"
    /\ \E fault \in {"none", "query", "flush"} :
         LET recs == AllRecommendations(clusters)
             rows == {[rec |-> r, run |-> s] : r \in recs}
         IN  req' = [req EXCEPT ![s] =
                       CASE fault = "query" ->
                              [@ EXCEPT !.pc = "raised", !.kind = "recommendations"]
                         [] fault = "flush" ->
                              [@ EXCEPT !.pc = "raised", !.kind = "recommendations",
                                        !.new_recommendations = rows]
                         [] OTHER ->
                              [@ EXCEPT !.pc = "returned", !.kind = "recommendations",
                                        !.new_recommendations = rows,
                                        !.results = recs]]
    /\ UNCHANGED <<clusters, alerts, recommendations, alert_history, notifications,
                   sched, cost_records, allocation_rules, teams, team_members,
                   cost_allocations, cost_forecasts>>

\* The cluster snapshots a table is drawn from: all-purpose clusters without
\* a timeout (NULL and 0), with timeouts around the limit of 120, a job
\* cluster and a pending cluster without a timeout; autoscaling ranges around
\* the ceiling of 10 and the CPU limit of 40, one with its floor above half
\* the ceiling and one with floor and ceiling equal; an idle cluster and an
\* under-utilised one.
ClusterPool ==
    {Cluster("c1", "all-purpose", "RUNNING", 4, Null, Null, Null, Null, Null, Null),
     Cluster("c2", "all-purpose", "RUNNING", 0, Null, Null, Some(0), Null, Null, Null),
     Cluster("c3", "all-purpose", "TERMINATED", 2, Null, Null, Some(121), Null, Null, Null),
     Cluster("c4", "all-purpose", "RUNNING", 2, Null, Null, Some(120), Null, Null, Null),
     Cluster("c5", "all-purpose", "RUNNING", 2, Null, Null, Some(1), Null, Null, Null),
     Cluster("c6", "job", "RUNNING", 2, Null, Null, Null, Null, Null, Null),
     Cluster("c7", "all-purpose", "PENDING", 2, Null, Null, Some(0), Null, Null, Null),
     Cluster("c8", "job", "RUNNING", 2, Some(2), Some(12), Some(30), Some(20), Some(50), Null),
     Cluster("c9", "job", "TERMINATED", 8, Some(8), Some(12), Some(30), Some(39), Some(50), Null),
     Cluster("c10", "job", "RUNNING", 12, Some(12), Some(12), Some(30), Some(10), Some(50), Null),
     Cluster("c11", "job", "RUNNING", 2, Some(2), Some(10), Some(30), Some(10), Some(50), Null),
     Cluster("c12", "job", "RUNNING", 2, Some(2), Some(12), Some(30), Some(40), Some(50), Null),
     Cluster("c13", "job", "RUNNING", 2, Null, Null, Some(30), Null, Null, Some(3)),
     Cluster("c14", "job", "RUNNING", 4, Null, Null, Some(30), Some(10), Some(10), Null)}

\* The number of cluster snapshots in the table.
MaxClusters == 2

InitRecs ==
    /\ cost_records = {}
    /\ allocation_rules = {}
    /\ teams = TeamsWith(<< <<>>, <<>> >>)
    /\ team_members = {}
    /\ cost_allocations = {}
    /\ cost_forecasts = {}
    /\ req = [s \in Requests |-> IdleRequest]
    /\ clusters \in {S \in SUBSET ClusterPool : Cardinality(S) <= MaxClusters}
    /\ alerts = {}
    /\ recommendations = {}
    /\ alert_history = {}
    /\ notifications = {}
    /\ sched = IdleScheduler

NextRecs ==
    \/ GenerateRecommendations("r1")
    \/ Commit("r1")
    \/ CommitFails("r1")
    \/ Rollback("r1")

SpecRecs == InitRecs /\ [][NextRecs]_vars


\* ------------------------------------------------------------------ alerts

\* A row of the table alerts.
Alert(id, type, threshold, threshold_type, conditions, channels, active, cooldown) ==
    [id |-> id, alert_type |-> type, workspace_id |-> Null,
     threshold_value |-> threshold, threshold_type |-> threshold_type,
     conditions |-> conditions, notification_channels |-> channels,
     is_active |-> active, cooldown_minutes |-> cooldown]

\* The records an alert query sums: usage_date in [from, to), and of the
\* alert's workspace when it names one.
SpendBetween(records, from, to, workspace_id) ==
    SumOfCosts({r \in records :
                   /\ r.usage_date >= from
                   /\ r.usage_date < to
                   /\ workspace_id = Null \/ r.workspace_id = workspace_id[1]})

\* AlertService._check_budget_threshold: the month began on day 0.
CheckBudgetThreshold(alert, records, today) ==
    LET current_spend == SpendBetween(records, 0, today + 1, alert.workspace_id)
        budget == alert.threshold_value
        pct_threshold == IF "percentage_threshold" \in DOMAIN alert.conditions
                         THEN alert.conditions["percentage_threshold"] ELSE 80
    IN  [current_value |-> current_spend,
         should_fire |->
            IF alert.threshold_type = "percentage"
            THEN IF budget > 0 THEN current_spend * 100 >= pct_threshold * budget
                 ELSE 0 >= pct_threshold
            ELSE current_spend >= alert.threshold_value]

\* AlertService._check_cost_spike.
CheckCostSpike(alert, records, today) ==
    LET today_cost == SpendBetween(records, today, today + 1, Null)
        yesterday_cost == SpendBetween(records, today - 1, today, Null)
        threshold_pct == IF alert.threshold_value = 0 THEN 50
                         ELSE alert.threshold_value
    IN  [current_value |-> today_cost,
         should_fire |->
            /\ yesterday_cost > 0
            /\ (today_cost - yesterday_cost) * 100 >= threshold_pct * yesterday_cost]

\* AlertService._check_daily_budget.
CheckDailyBudget(alert, records, today) ==
    LET daily_cost == SpendBetween(records, today, today + 1, Null)
    IN  [current_value |-> daily_cost,
         should_fire |-> daily_cost >= alert.threshold_value]

\* AlertService._evaluate_alert.
EvaluateAlert(alert, records, today) ==
    CASE alert.alert_type = "budget_threshold" ->
            CheckBudgetThreshold(alert, records, today)
      [] alert.alert_type = "cost_spike" -> CheckCostSpike(alert, records, today)
      [] alert.alert_type = "daily_budget" -> CheckDailyBudget(alert, records, today)
      [] OTHER -> [current_value |-> 0, should_fire |-> FALSE]

\* The cooldown is never over once the alert has a history row.
CheckCooldownForever(alert, history, now) ==
    ~\E h \in history : h.alert_id = alert.id

\* AlertService._check_cooldown: no history row of the alert in the last
\* cooldown_minutes, among the rows the session sees.
CheckCooldown(alert, history, now) ==
    ~\E h \in history :
        /\ h.alert_id = alert.id
        /\ h.triggered_at >= now - alert.cooldown_minutes

\* AlertService._send_notifications: the channels that reported success.
\* Slack fails when the webhook is missing or the post fails.
SendNotifications(alert, slack_ok) ==
    {ch \in alert.notification_channels : ch = "email" \/ (ch = "slack" /\ slack_ok)}

\* The alerts check_alerts triggers: active, firing and out of cooldown.
Triggered(table, records, history, today, now) ==
    {a \in table :
        /\ a.is_active
        /\ EvaluateAlert(a, records, today).should_fire
        /\ CheckCooldown(a, history, now)}

\* The AlertHistory row of a triggered alert; triggered_at is the server's
\* clock and run the cycle whose session holds the row.
HistoryRow(alert, records, today, now, run, slack_ok) ==
    [alert_id |-> alert.id, status |-> "triggered", triggered_at |-> now,
     current_value |-> EvaluateAlert(alert, records, today).current_value,
     notification_sent |-> SendNotifications(alert, slack_ok), run |-> run]

\* --------------------------------------------------------------- scheduler

\* The scheduler iterations the model follows.
MaxCycles == 3

\* settings.polling_interval, in minutes.
PollingInterval == 30

\* The scheduler runs all its cycles on day Now.
Today == Now

\* The billing rows a successful collection stores in cycle c.
CollectedBatch(c) ==
    {Record(Today, "w1", "s1", c, 1, c, <<>>, <<>>, <<>>)}

\* run_collection_cycle: the collectors' rows are stored and committed, or a
\* collector or the store raises, which is logged and swallowed.
RunCollectionCycle ==
    /\ sched.pc = "collect"
    /\ \E fault \in {"none", "collector"} :
         IF fault = "none"
         THEN /\ cost_records' = cost_records \cup CollectedBatch(sched.cycle)
              /\ sched' = [sched EXCEPT !.pc = "alerts"]
         ELSE /\ cost_records' = cost_records
              /\ sched' = [sched EXCEPT
                             !.pc = "alerts",
                             !.log = Append(@, <<sched.cycle, "Collection cycle failed">>)]
    /\ UNCHANGED <<clusters, alerts, recommendations, alert_history,
                   notifications, allocation_rules, teams, team_members,
                   cost_allocations, cost_forecasts, req>>

\* run_analysis_cycle, first stage: AlertService.check_alerts in the cycle's
\* session.  The notifications leave the process when the alert triggers;
\* the history rows wait for the session's commit.
CheckAlerts ==
    /\ sched.pc = "alerts"
    /\ \E fault \in {"none", "query", "flush"}, slack_ok \in BOOLEAN :
         LET triggered == Triggered(alerts, cost_records,
                                    alert_history \cup sched.new_history,
                                    Today, sched.now)
             rows == {HistoryRow(a, cost_records, Today, sched.now,
                                 sched.cycle, slack_ok) : a \in triggered}
             sent == UNION {{[alert_id |-> h.alert_id, channel |-> ch,
                              at |-> sched.now] : ch \in h.notification_sent} :
                            h \in rows}
         IN  /\ fault = "flush" => triggered # {}
             /\ slack_ok \/ \E a \in triggered : "slack" \in a.notification_channels
             /\ IF fault = "query"
                THEN /\ notifications' = notifications
                     /\ sched' = [sched EXCEPT !.pc = "rollback",
                                               !.stages = Append(@, "alerts")]
                ELSE /\ notifications' = notifications \cup sent
                     /\ sched' = [sched EXCEPT
                                    !.pc = IF fault = "flush" THEN "rollback"
                                           ELSE "recommendations",
                                    !.stages = Append(@, "alerts"),
                                    !.new_history = @ \cup rows]
    /\ UNCHANGED <<clusters, alerts, recommendations, alert_history,
                   cost_records, allocation_rules, teams, team_members,
                   cost_allocations, cost_forecasts, req>>

\* run_analysis_cycle, second stage: generate_all_recommendations in the same
\* session; its rows wait for the commit.
GenerateAllRecommendations ==
    /\ sched.pc = "recommendations"
    /\ \E fault \in {"none", "query", "flush"} :
         sched' = [sched EXCEPT
                     !.pc = IF fault = "none" THEN "anomalies" ELSE "rollback",
                     !.stages = Append(@, "recommendations"),
                     !.new_recommendations =
                        IF fault = "query" THEN @
                        ELSE @ \cup {[rec |-> r, run |-> sched.cycle] :
                                     r \in AllRecommendations(clusters)}]
    /\ UNCHANGED <<clusters, alerts, recommendations, alert_history,
                   notifications, cost_records, allocation_rules, teams,
                   team_members, cost_allocations, cost_forecasts, req>>

\* run_analysis_cycle, third stage: detect_anomalies in the same session.  The
\* anomalies are counted in the log and stored nowhere.
DetectAnomaliesStage ==
    /\ sched.pc = "anomalies"
    /\ \E fault \in {"none", "query"} :
         sched' = [sched EXCEPT
                     !.pc = IF fault = "none" THEN "commit" ELSE "rollback",
                     !.stages = Append(@, "anomaly_detection"),
                     !.anomalies =
                        IF fault = "none"
                        THEN Len(DetectAnomaliesList(cost_records,
                                     AnomalyLookbackDays, DefaultSensitivity))
                        ELSE @]
    /\ UNCHANGED <<clusters, alerts, recommendations, alert_history,
                   notifications, cost_records, allocation_rules, teams,
                   team_members, cost_allocations, cost_forecasts, req>>

\* get_session_ctx after the body of run_analysis_cycle: session.commit()
\* succeeds and the cycle is over.
CommitCycle ==
    /\ sched.pc = "commit"
    /\ alert_history' = TableAfterCommit(alert_history, sched.new_history)
    /\ recommendations' = TableAfterCommit(recommendations, sched.new_recommendations)
    /\ sched' = [sched EXCEPT !.pc = "sleep", !.new_history = {},
                              !.new_recommendations = {},
                              !.outcome = Append(@, "completed")]
    /\ UNCHANGED <<clusters, alerts, notifications, cost_records,
                   allocation_rules, teams, team_members, cost_allocations,
                   cost_forecasts, req>>

\* get_session_ctx: session.commit() raises.
CommitCycleFails ==
    /\ sched.pc = "commit"
    /\ sched' = [sched EXCEPT !.pc = "rollback"]
    /\ UNCHANGED <<clusters, alerts, recommendations, alert_history,
                   notifications, cost_records, allocation_rules, teams,
                   team_members, cost_allocations, cost_forecasts, req>>

\* The scheduler task ends with the exception.
RollbackCycleStops ==
    /\ sched.pc = "rollback"
    /\ sched' = [sched EXCEPT !.pc = "off",
                              !.new_history = AfterRollback(@),
                              !.new_recommendations = AfterRollback(@),
                              !.outcome = Append(@, "failed")]
    /\ UNCHANGED <<clusters, alerts, recommendations, alert_history,
                   notifications, cost_records, allocation_rules, teams,
                   team_members, cost_allocations, cost_forecasts, req>>

\* get_session_ctx's except clause rolls the session back and re-raises;
\* run_analysis_cycle's except clause logs the failure and returns.
RollbackCycle ==
    /\ sched.pc = "rollback"
    /\ sched' = [sched EXCEPT !.pc = "sleep",
                              !.new_history = AfterRollback(@),
                              !.new_recommendations = AfterRollback(@),
                              !.log = Append(@, <<sched.cycle, "Analysis cycle failed">>),
                              !.outcome = Append(@, "failed")]
    /\ UNCHANGED <<clusters, alerts, recommendations, alert_history,
                   notifications, cost_records, allocation_rules, teams,
                   team_members, cost_allocations, cost_forecasts, req>>

\* scheduler_loop: asyncio.sleep(interval), then the next iteration.
Sleep ==
    /\ sched.pc = "sleep"
    /\ sched.cycle < MaxCycles
    /\ sched' = [sched EXCEPT !.pc = "collect", !.cycle = @ + 1,
                              !.now = @ + PollingInterval, !.stages = <<>>]
    /\ UNCHANGED <<clusters, alerts, recommendations, alert_history,
                   notifications, cost_records, allocation_rules, teams,
                   team_members, cost_allocations, cost_forecasts, req>>


\* The alert configurations: a daily budget today's spend exceeds, mailed; a
\* monthly budget at half of which Slack is told, with a cooldown shorter
\* than the polling interval; a cost spike without channels; an inactive
\* alert; a budget far away; and a type the service does not know.
AlertPool ==
    [a1 |-> Alert("a1", "daily_budget", 3, "absolute", <<>>, {"email"}, TRUE, 60),
     a2 |-> Alert("a2", "budget_threshold", 10, "percentage",
                  [percentage_threshold |-> 50], {"slack"}, TRUE, 20),
     a3 |-> Alert("a3", "cost_spike", 0, "absolute", <<>>, {}, TRUE, 60),
     a4 |-> Alert("a4", "daily_budget", 0, "absolute", <<>>, {"email"}, FALSE, 60),
     a5 |-> Alert("a5", "budget_threshold", 99, "absolute", <<>>, {"email"}, TRUE, 60),
     a6 |-> Alert("a6", "anomaly", 0, "absolute", <<>>, {"email"}, TRUE, 60)]

AlertSets ==
    {{AlertPool.a1}, {AlertPool.a1, AlertPool.a2},
     {AlertPool.a3, AlertPool.a4}, {AlertPool.a5, AlertPool.a6}}

\* The billing rows before the first cycle: 2 dollars yesterday, 4 today.
SchedStore ==
    {Record(Today - 1, "w1", "s1", 9, 1, 2, <<>>, <<>>, <<>>),
     Record(Today, "w1", "s1", 9, 1, 4, <<>>, <<>>, <<>>)}

\* scheduler_loop at the top of its first iteration: the interval is
\* positive, so the loop is entered.
InitSched ==
    /\ PollingInterval > 0
    /\ cost_records = SchedStore
    /\ allocation_rules = {}
    /\ teams = TeamsWith(<< <<>>, <<>> >>)
    /\ team_members = {}
    /\ cost_allocations = {}
    /\ cost_forecasts = {}
    /\ req = [s \in Requests |-> IdleRequest]
    /\ clusters = {Cluster("c1", "all-purpose", "RUNNING", 4, Null, Null, Null,
                           Null, Null, Null)}
    /\ alerts \in AlertSets
    /\ recommendations = {}
    /\ alert_history = {}
    /\ notifications = {}
    /\ sched = [IdleScheduler EXCEPT !.pc = "collect", !.cycle = 1]

NextSched ==
    \/ RunCollectionCycle
    \/ CheckAlerts
    \/ GenerateAllRecommendations
    \/ DetectAnomaliesStage
    \/ CommitCycle
    \/ CommitCycleFails
    \/ RollbackCycle
    \/ Sleep

SpecSched == InitSched /\ [][NextSched]_vars

\* The event loop keeps running the scheduler task: an exception that
\* propagates reaches its handlers, and asyncio.sleep(interval) ends.  A
\* stage that awaits the database or a webhook may wait for ever.
SpecSchedFair == SpecSched /\ WF_vars(RollbackCycle) /\ WF_vars(Sleep)


\* The recommendation runs that returned their list.
RecsReturned ==
    {s \in Requests : /\ req[s].kind = "recommendations"
                      /\ req[s].pc \in {"returned", "committed"}}

\* The policy_enforcement recommendations a run made for a cluster.
PolicyRecs(s, c) ==
    {r \in req[s].results : /\ r.recommendation_type = "policy_enforcement"
                            /\ r.resource_id = c.cluster_id}

\* What the claim promises a cluster, given its auto-termination: one
\* recommendation of severity "high" without a timeout (NULL or 0), one of
\* severity "low" above 120 minutes, none from 1 to 120 minutes.
PolicyAsPromised(s, c) ==
    LET t == c.auto_termination_minutes
        P == PolicyRecs(s, c)
    IN  /\ (t = Null \/ t = Some(0))
           => Cardinality(P) = 1 /\ \A r \in P : r.severity = "high"
        /\ (t # Null /\ t[1] > 120)
           => Cardinality(P) = 1 /\ \A r \in P : r.severity = "low"
        /\ (t # Null /\ t[1] >= 1 /\ t[1] <= 120) => P = {}

\* C24 as stated: every cluster snapshot gets the policy_enforcement
\* recommendation its auto-termination calls for.
C24_Original ==
    \A s \in RecsReturned : \A c \in clusters : PolicyAsPromised(s, c)

\* The clusters _check_auto_termination looks at.
PolicyChecked(c) ==
    c.cluster_type = "all-purpose" /\ c.state \in {"RUNNING", "TERMINATED"}

\* C24: every all-purpose cluster snapshot in state RUNNING or TERMINATED gets
\* one policy_enforcement recommendation of severity "high" when it has no
\* auto-termination (NULL or 0), one of severity "low" when its
\* auto-termination exceeds 120 minutes, and none from 1 to 120 minutes; the
\* two exclude each other, and every other cluster gets none.
C24_PolicyEnforcement ==
    \A s \in RecsReturned : \A c \in clusters :
        IF PolicyChecked(c) THEN PolicyAsPromised(s, c)
        ELSE PolicyRecs(s, c) = {}

\* A run over a job cluster without a timeout and an all-purpose cluster with
\* 121 minutes: the second gets its "low" recommendation, the first nothing.
C24_Witness ==
    /\ "r1" \in RecsReturned
    /\ \E c \in clusters :
          /\ c.cluster_type = "job"
          /\ c.auto_termination_minutes = Null
          /\ PolicyRecs("r1", c) = {}
    /\ \E c \in clusters :
          /\ PolicyChecked(c)
          /\ c.auto_termination_minutes = Some(121)
          /\ \E r \in PolicyRecs("r1", c) : r.severity = "low"

\* C25: an autoscale recommendation suggests a ceiling strictly below the
\* cluster's autoscale_max and not below its autoscale_min.
C25_SuggestsLower ==
    \A s \in RecsReturned : \A r \in req[s].results :
        r.details.action = "adjust_autoscale"
        => \A c \in clusters :
              c.cluster_id = r.resource_id
              => /\ r.details.suggested_max < c.autoscale_max[1]
                 /\ r.details.suggested_max >= c.autoscale_min[1]


\* The analysis of the current cycle went through and was committed.
CycleCompleted ==
    /\ sched.pc = "sleep"
    /\ Len(sched.outcome) = sched.cycle
    /\ sched.outcome[sched.cycle] = "completed"

\* C21: in every scheduler cycle the stages run in the order allocation,
\* anomaly detection, forecasting, recommendations, one after the other.
C21_StageOrder ==
    CycleCompleted
    => sched.stages = <<"allocation", "anomaly_detection", "forecasting",
                        "recommendations">>

\* The rows a table holds were added by cycles whose session was committed.
OnlyCommittedCycles ==
    \A row \in alert_history \cup recommendations :
        /\ row.run <= Len(sched.outcome)
        /\ sched.outcome[row.run] = "completed"

\* No stage is called twice in a cycle.
NoStageTwice ==
    \A i, j \in DOMAIN sched.stages : sched.stages[i] = sched.stages[j] => i = j

\* The step out of a failed session: nothing reaches the tables, the
\* session's rows are gone, one error line is logged, and the loop goes on to
\* its sleep.
FailureStep ==
    sched.pc = "rollback"
    => /\ sched'.pc = "sleep"
       /\ alert_history' = alert_history
       /\ recommendations' = recommendations
       /\ sched'.new_history = {}
       /\ sched'.new_recommendations = {}
       /\ sched'.log = Append(sched.log, <<sched.cycle, "Analysis cycle failed">>)
       /\ sched'.outcome = Append(sched.outcome, "failed")

\* The step out of the sleep: the next cycle, one polling interval later.
SleepStep ==
    sched.pc = "sleep"
    => /\ sched'.pc = "collect"
       /\ sched'.cycle = sched.cycle + 1
       /\ sched'.now = sched.now + PollingInterval
       /\ sched'.stages = <<>>

\* A collection that failed or went through is followed by the analysis.
CollectStep ==
    sched.pc = "collect" => sched'.pc = "alerts" /\ sched'.cycle = sched.cycle

\* C22: a cycle whose stage raises has its session rolled back, so that none
\* of its rows is committed; the failure is logged and the loop goes on; the
\* failed cycle is not retried, the next cycle starts one polling interval
\* later; and under fairness a failed cycle is followed by another cycle.
C22_FailedCycleContinues ==
    /\ [][/\ FailureStep /\ SleepStep /\ CollectStep
          /\ OnlyCommittedCycles' /\ NoStageTwice']_vars
    /\ \A c \in 1..(MaxCycles - 1) :
          (Len(sched.outcome) >= c /\ sched.outcome[c] = "failed")
          ~> (sched.cycle > c)

\* The first cycle sent a notification and failed, nothing of it is stored,
\* and the second cycle has begun.
C22_Witness ==
    /\ sched.cycle = 2
    /\ sched.outcome = <<"failed">>
    /\ sched.log # <<>>
    /\ notifications # {}
    /\ alert_history = {}
    /\ recommendations = {}

\* The alert a notification was sent for.
AlertOf(n) == CHOOSE a \in alerts : a.id = n.alert_id

\* C29: an alert notifies at most once within its cooldown_minutes, and once
\* a cycle's session is closed every notification sent has its committed
\* AlertHistory row.
C29_OncePerCooldown ==
    /\ \A n1, n2 \in notifications :
          (n1.alert_id = n2.alert_id /\ n1.channel = n2.channel /\ n1.at < n2.at)
          => n2.at - n1.at >= AlertOf(n1).cooldown_minutes
    /\ sched.pc \in {"sleep", "collect"}
       => \A n \in notifications :
             \E h \in alert_history :
                h.alert_id = n.alert_id /\ h.triggered_at = n.at
====
